---------------------------- MODULE Spec2Model ----------------------------
(***************************************************************************)
(* Model of the PCIe enclosure management (NPEM / _DSM) indication driver. *)
(*                                                                         *)
(* Main revision: drivers/pci/npem.c (LED class interface, cached active   *)
(* indications, npem_lock).                                                *)
(*                                                                         *)
(* A 32-bit register value / bit mask is modelled as the set of the        *)
(* positions of its set bits (a subset of 0..31): a | b is a \cup b,       *)
(* a & b is a \cap b, a & ~b is a \ b, BIT(n) is {n}.  Only bitwise        *)
(* operations are applied to masks in the code, so no width is lost.       *)
(***************************************************************************)
EXTENDS Integers, Sequences, FiniteSets, TLC

(***************************************************************************)
(* Bounds of the model.                                                    *)
(***************************************************************************)
\* number of concurrent callers of the LED callbacks
NumThreads == 2
\* number of status polls read_poll_timeout() makes before the 1 s deadline
\* is certainly over (the real loop sleeps 2.5..10 ms between reads)
MaxPolls == 2

\* the threads that invoke the LED callbacks from outside (sysfs, triggers)
Callers == 1..NumThreads
\* the LED core inside led_classdev_register() / led_classdev_unregister(),
\* in the thread that runs pci_npem_init() or npem_free(): it calls
\* brightness_get() on the LED it registers and brightness_set(LED_OFF) on
\* the LED it unregisters (led->flags = 0: no LED_RETAIN_AT_SHUTDOWN)
LedCore == NumThreads + 1
Threads == Callers \cup {LedCore}
\* the PCI devices the model can hold; a behaviour uses those in "present"
Devices == {"dev0", "dev1"}

(***************************************************************************)
(* Register layout (bit positions) and errno values.                       *)
(***************************************************************************)
PCI_NPEM_CAP_CAPABLE == 0
PCI_NPEM_CTRL_ENABLE == 0
PCI_NPEM_CMD_RESET == 1
PCI_NPEM_STATUS_CC == 0
PCI_NPEM_IND_OK == 2
PCI_NPEM_IND_LOCATE == 3
PCI_NPEM_IND_FAIL == 4
PCI_NPEM_IND_REBUILD == 5
PCI_NPEM_IND_PFA == 6
PCI_NPEM_IND_HOTSPARE == 7
PCI_NPEM_IND_ICA == 8
PCI_NPEM_IND_IFA == 9
PCI_NPEM_IND_IDT == 10
PCI_NPEM_IND_DISABLED == 11
PCI_NPEM_IND_SPEC_0 == 24
PCI_NPEM_IND_SPEC_7 == 31

EINTR == 4
EIO == 5
ENOMEM == 12
EACCES == 13
ENODEV == 19
ETIMEDOUT == 110

LED_OFF == 0
LED_ON == 1

AllOnes == 0..31

\* struct indication npem_indications[]: the bits, in declaration order
npem_indications ==
    << PCI_NPEM_IND_OK, PCI_NPEM_IND_LOCATE, PCI_NPEM_IND_FAIL,
       PCI_NPEM_IND_REBUILD, PCI_NPEM_IND_PFA, PCI_NPEM_IND_HOTSPARE,
       PCI_NPEM_IND_ICA, PCI_NPEM_IND_IFA, PCI_NPEM_IND_IDT,
       PCI_NPEM_IND_DISABLED,
       PCI_NPEM_IND_SPEC_0, 25, 26, 27, 28, 29, 30, PCI_NPEM_IND_SPEC_7 >>

\* struct indication dsm_indications[]
dsm_indications ==
    << PCI_NPEM_IND_OK, PCI_NPEM_IND_LOCATE, PCI_NPEM_IND_FAIL,
       PCI_NPEM_IND_REBUILD, PCI_NPEM_IND_PFA, PCI_NPEM_IND_HOTSPARE,
       PCI_NPEM_IND_ICA, PCI_NPEM_IND_IFA, PCI_NPEM_IND_IDT,
       PCI_NPEM_IND_DISABLED >>

\* const struct npem_ops npem_ops / dsm_ops: the .inds member
ops_inds(o) == IF o = "dsm_ops" THEN dsm_indications ELSE npem_indications

\* for_each_indication(ind, inds): the bits visited
IndBits(inds) == { inds[i] : i \in DOMAIN inds }

\* a reg_to_indications() that keeps every bit of the register
reg_to_indications_raw(caps, inds) == caps

\* reg_to_indications(): caps & (union of the catalog bits)
reg_to_indications(caps, inds) == caps \cap IndBits(inds)


(***************************************************************************)
(* Values the environment (hardware, firmware, allocator, LED core) can    *)
(* hand to the driver.                                                     *)
(***************************************************************************)
\* capability words: NPEM Capability register / _DSM supported states
CapWords == { {0, 3, 4, 12}, {0, 3, 24}, {3, 4} }

\* control register contents / _DSM states other than the requested one
ClampValues == { {3, 4}, {0, 4, 12} }

\* outcome of pci_read_config_dword(): err = 0 and the data, or a PCIBIOS
\* error; on an error the accessor leaves the caller's buffer untouched or
\* stores the PCI error response (all ones) in it
ConfigReads(values) ==
    { [err |-> 0, data |-> v, clobber |-> FALSE] : v \in values }
    \cup { [err |-> ENODEV, data |-> {}, clobber |-> c] : c \in BOOLEAN }

\* outcome of pci_write_config_dword()
ConfigWrites == { 0, ENODEV }

\* outcome of acpi_evaluate_dsm_typed(): ok = FALSE is a NULL or too short
\* buffer, otherwise the fields of struct dsm_output
DsmStatuses == { [st |-> 0, fse |-> 0], [st |-> 4, fse |-> 1],
                 [st |-> 4, fse |-> 0], [st |-> 3, fse |-> 0] }
DsmOutputs(states) ==
    { [ok |-> FALSE, status |-> 0, function_specific_err |-> 0, state |-> {}] }
    \cup { [ok |-> TRUE, status |-> s.st, function_specific_err |-> s.fse,
            state |-> v] : s \in DsmStatuses, v \in states }

(***************************************************************************)
(* State.                                                                  *)
(***************************************************************************)
VARIABLES
    present,                \* the PCI devices that exist in this run
    dsm_present,            \* device: npem_has_dsm(dev) (ACPI _DSM with all 3 functions)
    cap_pos,                \* device: pci_find_ext_capability(dev, NPEM), 0 if absent
    probed,                 \* pci_npem_create(dev) has run
    dev_npem,               \* dev->npem is non-NULL
    ops,                    \* npem->ops: "npem_ops" | "dsm_ops" | "none"
    supported_indications,  \* npem->supported_indications
    active_indications,     \* npem->active_indications (the cache)
    leds,                   \* npem->leds[]: bits of the registered LEDs, by slot
    npem_lock,              \* npem->npem_lock: 0 or the thread holding it
    kfree_cnt,              \* times the struct npem attached to dev was freed
    pc,                     \* per thread: position in brightness_get/brightness_set
    frame,                  \* per thread: arguments and locals of the running call
    reg_touched,            \* history: NPEM capability registers were read or written
    last_set,               \* history: the last set, if the backend echoed it
    expect,                 \* history: cache expected if every set was echoed
    create_log,             \* history: what pci_npem_create(dev) did and returned
    led_unregistered,       \* history: bits of the LEDs unregistered, in order
    cb_io,                  \* history: parity of the backend accesses of the running callback
    hw_cc,                  \* the device: PCI_NPEM_STATUS_CC in its status register
    led_cdev,               \* bits of the LEDs registered with the LED core (callable)
    npem_task,              \* per device: where pci_npem_init() / npem_free() stands
    em_type,                \* pcie_em.c: private->type, "none" before creation
    em_ecomp,               \* pcie_em.c: "none", "registered" (ecomp->scratch
                            \* still NULL) or "scratch" (ecomp->scratch = emdev)
    em_supported_patterns,  \* pcie_em.c: private->supported_patterns
    em_pc,                  \* pcie_em.c: position in the running callback
    em_frame                \* pcie_em.c: arguments and locals of the running callback

vars == << present, dsm_present, cap_pos, probed, dev_npem, ops, supported_indications,
           active_indications, leds, npem_lock, kfree_cnt, pc, frame,
           reg_touched, last_set, expect, create_log, led_unregistered, cb_io,
           hw_cc, led_cdev, npem_task,
           em_type, em_ecomp, em_supported_patterns, em_pc, em_frame >>

\* state of the enclosure-class revision (drivers/pci/pcie_em.c)
em_vars == << em_type, em_ecomp, em_supported_patterns, em_pc, em_frame >>

\* what no LED callback of npem.c changes: the devices and the other revision
dev_vars == << present, dsm_present, cap_pos, em_vars >>
session_vars == << probed, dev_npem, ops, supported_indications, leds, kfree_cnt,
                   create_log, led_unregistered, led_cdev, npem_task >>

NpemPos == 256

NoFrame == [op |-> "none", dev |-> "dev0", bit |-> 0, on |-> FALSE, val |-> {},
            ret |-> 0, polls |-> 0, pre |-> {}, repeat |-> FALSE, wrote |-> 0,
            reported |-> {}, echo |-> TRUE, timed_out |-> FALSE,
            dsm |-> "none", raw |-> {}, funcs |-> {}, cc |-> FALSE,
            ret_val |-> 0, stale_cc |-> FALSE]

\* create_log before pci_npem_create(): ret is what pci_npem_init() returned,
\* caps the capability word handed to it, registered the LEDs registered,
\* failed the LED whose registration failed, reg_err its error, st the kind
\* of the GET_STATE_DSM response, sup the kind of the GET_SUPPORTED_STATES
\* response, cap the outcome of the capability lookup and read, get the
\* outcome of ops->get_active_indications(), funcs the _DSM function indices
\* handed to acpi_evaluate_dsm_typed(); initial: npem->active_indications is
\* still what pci_npem_init() stored (no brightness_set() was called), and
\* raw is then the register value or _DSM state pci_npem_init() got
NoLog == [ret |-> 0, caps |-> {}, registered |-> << >>, failed |-> {},
          reg_err |-> 0, st |-> "none", sup |-> "none", cap |-> "none",
          get |-> "none", raw |-> {}, initial |-> FALSE, funcs |-> {}]

NoEmFrame == [op |-> "none", ptrn |-> "ENCLOSURE_LED_UNKNOWN", state |-> FALSE, curr |-> {},
              new_ptrns |-> {}, ret |-> 0, polls |-> 0, io |-> << >>,
              failed |-> FALSE, seen_cc |-> FALSE, deadline |-> FALSE]

\* npem_task of a device on which neither pci_npem_create() nor
\* pci_npem_remove() is running.  pc: "register" inside the LED loop of
\* pci_npem_init() up to the assignment of dev->npem, "free" inside
\* npem_free() before led_classdev_unregister() of the next LED, "unreg"
\* inside that led_classdev_unregister(), "oops" after a fault in
\* npem_free(); todo: the LEDs npem_free() has still to unregister; ctx:
\* the caller of npem_free() ("init" or "remove")
NoTask == [pc |-> "none", todo |-> << >>, ctx |-> "none"]

\* the state before any device is probed
InitOf(devs) ==
    /\ present = devs
    /\ dsm_present \in { f \in [Devices -> BOOLEAN] :
                            \A d \in Devices \ devs : ~f[d] }
    /\ cap_pos \in { f \in [Devices -> {0, NpemPos}] :
                        \A d \in Devices \ devs : f[d] = 0 }
    /\ probed = [d \in Devices |-> FALSE]
    /\ dev_npem = [d \in Devices |-> FALSE]
    /\ ops = [d \in Devices |-> "none"]
    /\ supported_indications = [d \in Devices |-> {}]
    /\ active_indications = [d \in Devices |-> {}]
    /\ leds = [d \in Devices |-> << >>]
    /\ npem_lock = [d \in Devices |-> 0]
    /\ kfree_cnt = [d \in Devices |-> 0]
    /\ pc = [t \in Threads |-> "idle"]
    /\ frame = [t \in Threads |-> NoFrame]
    /\ reg_touched = [d \in Devices |-> FALSE]
    /\ last_set = [d \in Devices |-> {}]
    /\ expect = [d \in Devices |-> {}]
    /\ create_log = [d \in Devices |-> NoLog]
    /\ led_unregistered = [d \in Devices |-> << >>]
    /\ cb_io = [d \in Devices |-> 0]
    /\ hw_cc = [d \in Devices |-> FALSE]
    /\ npem_task = [d \in Devices |-> NoTask]
    /\ led_cdev = [d \in Devices |-> {}]

\* pcie_em.c: no enclosure management device created, no callback running
EmIdle ==
    /\ em_type = "none"
    /\ em_ecomp = "none"
    /\ em_supported_patterns = {}
    /\ em_pc = "idle"
    /\ em_frame = NoEmFrame

Init == InitOf({"dev0"}) /\ EmIdle

(***************************************************************************)
(* Backend primitives (pure parts).                                        *)
(***************************************************************************)
\* npem_read_reg(): returns the errno and what is in *val afterwards
npem_read_reg(r, buf) ==
    IF r.err = 0 THEN [ret |-> 0, buf |-> r.data]
    ELSE [ret |-> -r.err, buf |-> IF r.clobber THEN AllOnes ELSE buf]

\* npem_write_ctrl(): returns the errno
npem_write_ctrl(w) == -w

\* an npem_get_active_indications() that does not look at PCI_NPEM_CTRL_ENABLE
npem_get_active_indications_noenable(r, buf, supported) ==
    LET rd == npem_read_reg(r, buf) IN
    IF rd.ret # 0 THEN rd
    ELSE [ret |-> 0, buf |-> rd.buf \cap supported]

\* npem_get_active_indications(npem, buf): r is the outcome of the control
\* register read
npem_get_active_indications(r, buf, supported) ==
    LET rd == npem_read_reg(r, buf) IN
    IF rd.ret # 0 THEN rd
    ELSE [ret |-> 0,
          buf |-> (IF PCI_NPEM_CTRL_ENABLE \in rd.buf THEN rd.buf ELSE {})
                  \cap supported]

\* a dsm_evaluate() that does not check the object the _DSM returned
dsm_evaluate_unchecked(out) == 0

\* dsm_evaluate(): 0 and the copied output, or -EIO
dsm_evaluate(out) == IF out.ok THEN 0 ELSE -EIO

\* dsm_get(pdev, func, buf)
dsm_get(out, buf) ==
    IF dsm_evaluate(out) # 0 THEN [ret |-> dsm_evaluate(out), buf |-> buf]
    ELSE IF out.status # 0 THEN [ret |-> -EIO, buf |-> buf]
    ELSE [ret |-> 0, buf |-> out.state]

\* dsm_get_active_indications(npem, buf): the mask is applied whatever ret is
dsm_get_active_indications(out, buf, supported) ==
    LET g == dsm_get(out, buf) IN
    [ret |-> g.ret, buf |-> g.buf \cap supported]

\* a dsm_set_active_indications() that takes every non-zero status as an error
dsm_set_active_indications_strict(out, active) ==
    IF dsm_evaluate(out) # 0 THEN [ret |-> dsm_evaluate(out), active |-> active]
    ELSE IF out.status # 0 THEN [ret |-> -EIO, active |-> active]
    ELSE [ret |-> 0, active |-> out.state]

\* dsm_set_active_indications(npem, value): returns the errno and the new
\* npem->active_indications
dsm_set_active_indications(out, active) ==
    IF dsm_evaluate(out) # 0 THEN [ret |-> dsm_evaluate(out), active |-> active]
    ELSE IF out.status = 4 /\ out.function_specific_err # 1
         THEN [ret |-> -EIO, active |-> active]
    ELSE IF out.status \notin {0, 4} THEN [ret |-> -EIO, active |-> active]
    ELSE [ret |-> 0, active |-> out.state]

\* a brightness_set() that asks the backend for the one indication only
brightness_set_indications_only(active, bit, on) == IF on THEN {bit} ELSE {}

\* a brightness_set() that toggles the bit instead of setting it to "on"
brightness_set_indications_toggle(active, bit, on) ==
    IF bit \in active THEN active \ {bit} ELSE active \cup {bit}

\* brightness_set(): the mask handed to ops->set_active_indications()
brightness_set_indications(active, bit, on) ==
    IF on THEN active \cup {bit} ELSE active \ {bit}

\* a brightness_get() that tests the whole cache instead of the LED's bit
brightness_get_val_any(active, bit) ==
    IF active # {} THEN LED_ON ELSE LED_OFF

\* brightness_get(): the value returned with the lock held
brightness_get_val(active, bit) ==
    IF active \cap {bit} # {} THEN LED_ON ELSE LED_OFF

(***************************************************************************)
(* Session creation and removal.                                           *)
(***************************************************************************)
\* bound on the number of pci_npem_remove() calls on one device
MaxRemoves == 2

\* status register values
StatusValues == { {}, {PCI_NPEM_STATUS_CC} }

\* index of the LED whose registration fails (0: none)
RegFailAt == { 0, 1, 2 }

Range(f) == { f[i] : i \in DOMAIN f }

\* a pci_npem_init() that registers an LED for every catalog entry
LedOrder_noskip(supported) == npem_indications

\* the supported catalog entries in the order pci_npem_init() walks them
LedOrder(supported) ==
    LET Sup(b) == b \in supported IN SelectSeq(npem_indications, Sup)

\* errors of led_classdev_register()
RegErrors == { ENOMEM, ENODEV }

\* the kind of a _DSM response: no or too short a result, status 0, status 4
\* with function specific error 1, any other status
DsmKind(out) ==
    IF ~out.ok THEN "noresult"
    ELSE IF out.status = 0 THEN "ok"
    ELSE IF out.status = 4 /\ out.function_specific_err = 1 THEN "partial"
    ELSE "hard"

\* npem->leds[] of a struct npem: the first `touched` slots were handed to
\* pci_npem_set_led_classdev(), the first `named` of them are registered and
\* keep their name, the others are zero (indication -1: NULL)
LedSlots(order, touched, named) ==
    [i \in 1..Len(order) |->
        [indication |-> IF i <= touched THEN order[i] ELSE -1,
         name |-> i <= named]]

\* an npem_free() that unregisters every slot the loop touched, named or not
npem_free_all(slots) ==
    LET Touched(sl) == sl.indication # -1
        Bit(sl) == sl.indication
        sel == SelectSeq(slots, Touched)
    IN  [i \in 1..Len(sel) |-> Bit(sel[i])]

\* npem_free(): the bits of the LEDs handed to led_classdev_unregister(),
\* in order; the struct is freed afterwards
npem_free(slots) ==
    LET Named(sl) == sl.name
        sel == SelectSeq(slots, Named)
    IN  [i \in 1..Len(sel) |-> sel[i].indication]

\* BIT(nr) as a mask
BIT(nr) == {nr}

\* the _DSM function macros
GET_SUPPORTED_STATES_DSM == BIT(1)
GET_STATE_DSM == BIT(2)
SET_STATE_DSM == BIT(3)

\* the number a mask stands for: the sum of 2^i over its bits
RECURSIVE MaskValue(_)
MaskValue(m) ==
    IF m = {} THEN 0
    ELSE LET i == CHOOSE b \in m : TRUE IN 2^i + MaskValue(m \ {i})

\* npem_has_dsm(): the functions acpi_check_dsm() finds present when it
\* returns true: those whose bit is set in its funcs argument
npem_has_dsm_funcs == GET_SUPPORTED_STATES_DSM \cup GET_STATE_DSM \cup SET_STATE_DSM

\* dsm_evaluate(pdev, dsm_func, ...): the function index it hands to
\* acpi_evaluate_dsm_typed() is the value of dsm_func
dsm_evaluate_func(dsm_func) == MaskValue(dsm_func)

\* the session when pci_npem_create() returns without attaching one
NoSession(ret, touched, registered) ==
    [ret |-> ret, attached |-> FALSE, ops |-> "none", supported |-> {},
     active |-> {}, leds |-> << >>, touched |-> touched,
     registered |-> registered, unregistered |-> registered,
     failed |-> {}, reg_err |-> 0, freed |-> 0, caps |-> {}, st |-> "none",
     sup |-> "none", cap |-> "none", get |-> "none", raw |-> {},
     funcs |-> {}]

\* a pci_npem_init() that goes on when ops->get_active_indications() failed
pci_npem_init_lazy(o, caps, alloc_ok, ctrl, st, fail_at, reg_err) ==
    LET supported == reg_to_indications(caps, ops_inds(o))
        order == LedOrder(supported)
        touched == (o = "npem_ops")
        kind == IF o = "dsm_ops" THEN DsmKind(st) ELSE "none"
        g == IF o = "dsm_ops"
             THEN dsm_get_active_indications(st, {}, supported)
             ELSE npem_get_active_indications(ctrl, {}, supported)
        raw == IF o = "dsm_ops" THEN st.state ELSE ctrl.data
        funcs == IF o = "dsm_ops" THEN {dsm_evaluate_func(GET_STATE_DSM)} ELSE {}
    IN  IF ~alloc_ok
        THEN [NoSession(-ENOMEM, FALSE, << >>) EXCEPT !.caps = caps]
        ELSE IF fail_at \in 1..Len(order)
        THEN [NoSession(-reg_err, touched, SubSeq(order, 1, fail_at - 1)) EXCEPT
                 !.unregistered = npem_free(LedSlots(order, fail_at, fail_at - 1)),
                 !.failed = {order[fail_at]}, !.reg_err = reg_err,
                 !.freed = 1, !.caps = caps, !.st = kind,
                 !.get = IF g.ret # 0 THEN "failed" ELSE "ok", !.funcs = funcs]
        ELSE [ret |-> 0, attached |-> TRUE, ops |-> o, supported |-> supported,
              active |-> reg_to_indications(g.buf, ops_inds(o)),
              leds |-> order, touched |-> touched,
              registered |-> order, unregistered |-> << >>,
              failed |-> {}, reg_err |-> 0, freed |-> 0, caps |-> caps,
              st |-> kind, sup |-> "none", cap |-> "none",
              get |-> IF g.ret # 0 THEN "failed" ELSE "ok", raw |-> raw, funcs |-> funcs]

\* pci_npem_init(dev, ops, pos, caps).  alloc_ok: kzalloc() succeeded;
\* ctrl / st: outcome of the control register read / the GET_STATE _DSM;
\* fail_at: index of the LED whose led_classdev_register() fails, 0 if none;
\* reg_err: the error it fails with.
pci_npem_init(o, caps, alloc_ok, ctrl, st, fail_at, reg_err) ==
    LET supported == reg_to_indications(caps, ops_inds(o))
        order == LedOrder(supported)
        touched == (o = "npem_ops")
        kind == IF o = "dsm_ops" THEN DsmKind(st) ELSE "none"
        g == IF o = "dsm_ops"
             THEN dsm_get_active_indications(st, {}, supported)
             ELSE npem_get_active_indications(ctrl, {}, supported)
        raw == IF o = "dsm_ops" THEN st.state ELSE ctrl.data
        funcs == IF o = "dsm_ops" THEN {dsm_evaluate_func(GET_STATE_DSM)} ELSE {}
    IN  IF ~alloc_ok
        THEN [NoSession(-ENOMEM, FALSE, << >>) EXCEPT !.caps = caps]
        ELSE IF g.ret # 0
        THEN [NoSession(-EACCES, touched, << >>) EXCEPT
                 !.unregistered = npem_free(LedSlots(order, 0, 0)),
                 !.freed = 1, !.caps = caps, !.st = kind,
                 !.get = "failed", !.funcs = funcs]
        ELSE IF fail_at \in 1..Len(order)
        THEN [NoSession(-reg_err, touched, SubSeq(order, 1, fail_at - 1)) EXCEPT
                 !.unregistered = npem_free(LedSlots(order, fail_at, fail_at - 1)),
                 !.failed = {order[fail_at]}, !.reg_err = reg_err,
                 !.freed = 1, !.caps = caps, !.st = kind,
                 !.get = "ok", !.funcs = funcs]
        ELSE [ret |-> 0, attached |-> TRUE, ops |-> o, supported |-> supported,
              active |-> reg_to_indications(g.buf, ops_inds(o)),
              leds |-> order, touched |-> touched,
              registered |-> order, unregistered |-> << >>,
              failed |-> {}, reg_err |-> 0, freed |-> 0, caps |-> caps,
              st |-> kind, sup |-> "none", cap |-> "none",
              get |-> "ok", raw |-> raw, funcs |-> funcs]

\* a pci_npem_create() that uses the _DSM only when there is no NPEM capability
pci_npem_create_npem_first(has_dsm, pos, capr, sup, alloc_ok, ctrl, st, fail_at, reg_err) ==
    IF pos # 0
    THEN IF capr.err # 0 \/ PCI_NPEM_CAP_CAPABLE \notin capr.data
         THEN NoSession(0, TRUE, << >>)
         ELSE LET i == pci_npem_init("npem_ops", capr.data, alloc_ok, ctrl, st,
                                     fail_at, reg_err)
              IN  [i EXCEPT !.touched = TRUE]
    ELSE IF ~has_dsm THEN NoSession(0, FALSE, << >>)
    ELSE LET g == dsm_get(sup, {}) IN
         IF g.ret # 0 THEN NoSession(0, FALSE, << >>)
         ELSE pci_npem_init("dsm_ops", g.buf, alloc_ok, ctrl, st, fail_at, reg_err)

\* a pci_npem_create() that falls back to the NPEM capability when the
\* GET_SUPPORTED_STATES _DSM fails
pci_npem_create_fallback(has_dsm, pos, capr, sup, alloc_ok, ctrl, st, fail_at, reg_err) ==
    IF ~has_dsm \/ dsm_get(sup, {}).ret # 0
    THEN IF pos = 0 THEN [NoSession(0, FALSE, << >>) EXCEPT !.cap = "absent"]
         ELSE IF capr.err # 0 \/ PCI_NPEM_CAP_CAPABLE \notin capr.data
              THEN [NoSession(0, TRUE, << >>) EXCEPT
                       !.cap = IF capr.err # 0 THEN "err" ELSE "incapable"]
         ELSE LET i == pci_npem_init("npem_ops", capr.data, alloc_ok, ctrl, st,
                                     fail_at, reg_err)
              IN  [i EXCEPT !.touched = TRUE, !.cap = "ok",
                            !.sup = IF has_dsm THEN DsmKind(sup) ELSE "none"]
    ELSE LET i == pci_npem_init("dsm_ops", dsm_get(sup, {}).buf, alloc_ok, ctrl, st,
                                fail_at, reg_err)
         IN  [i EXCEPT !.sup = DsmKind(sup),
                       !.funcs = {dsm_evaluate_func(GET_SUPPORTED_STATES_DSM)} \cup @]

\* pci_npem_create(dev).  capr: outcome of the capability register read;
\* sup: outcome of the GET_SUPPORTED_STATES _DSM.
pci_npem_create(has_dsm, pos, capr, sup, alloc_ok, ctrl, st, fail_at, reg_err) ==
    IF ~has_dsm
    THEN IF pos = 0 THEN [NoSession(0, FALSE, << >>) EXCEPT !.cap = "absent"]
         ELSE IF capr.err # 0 \/ PCI_NPEM_CAP_CAPABLE \notin capr.data
              THEN [NoSession(0, TRUE, << >>) EXCEPT
                       !.cap = IF capr.err # 0 THEN "err" ELSE "incapable"]
         ELSE LET i == pci_npem_init("npem_ops", capr.data, alloc_ok, ctrl, st,
                                     fail_at, reg_err)
              IN  [i EXCEPT !.touched = TRUE, !.cap = "ok"]
    ELSE LET g == dsm_get(sup, {})
             f == {dsm_evaluate_func(GET_SUPPORTED_STATES_DSM)}
         IN  IF g.ret # 0
             THEN [NoSession(0, FALSE, << >>) EXCEPT
                      !.sup = DsmKind(sup), !.funcs = f]
             ELSE LET i == pci_npem_init("dsm_ops", g.buf, alloc_ok, ctrl, st,
                                         fail_at, reg_err)
                  IN  [i EXCEPT !.sup = DsmKind(sup), !.funcs = f \cup @]

\* what pci_npem_create(dev) can do on a device with / without the _DSM and
\* with / without the capability, over every outcome of its register reads,
\* firmware calls, allocation and LED registrations
CreateOutcomes ==
    [has_dsm \in BOOLEAN, pos \in {0, NpemPos} |->
        { pci_npem_create(has_dsm, pos, capr, sup, alloc_ok, ctrl, st, fail_at, reg_err) :
            capr \in ConfigReads(CapWords), sup \in DsmOutputs(CapWords),
            alloc_ok \in BOOLEAN, ctrl \in ConfigReads(ClampValues),
            st \in DsmOutputs(ClampValues), fail_at \in RegFailAt,
            reg_err \in RegErrors }]

\* create_log after a pci_npem_create() with outcome c
LogOf(c) ==
    [ret |-> c.ret, caps |-> c.caps, registered |-> c.registered,
     failed |-> c.failed, reg_err |-> c.reg_err, st |-> c.st, sup |-> c.sup,
     cap |-> c.cap, get |-> c.get, raw |-> c.raw, initial |-> c.attached,
     funcs |-> c.funcs]

\* pci_npem_create(dev) up to the LED loop of pci_npem_init(): the backend
\* is chosen, the struct is allocated and filled, the cache is read and the
\* mutex initialised.  c is the outcome of a run in which no registration
\* fails; when the run ends before the loop (no backend, no memory, failed
\* get_active_indications(), nothing supported) the whole call is this step.
Create(d) ==
    /\ ~probed[d] /\ npem_task[d].pc = "none"
    /\ \E c \in CreateOutcomes[dsm_present[d], cap_pos[d]] :
          /\ c.failed = {}
          /\ probed' = [probed EXCEPT ![d] = TRUE]
          /\ ops' = [ops EXCEPT ![d] = c.ops]
          /\ supported_indications' =
                 [supported_indications EXCEPT ![d] = c.supported]
          /\ active_indications' = [active_indications EXCEPT ![d] = c.active]
          /\ kfree_cnt' = [kfree_cnt EXCEPT ![d] = c.freed]
          /\ reg_touched' = [reg_touched EXCEPT ![d] = c.touched]
          /\ expect' = [expect EXCEPT ![d] =
                           IF c.attached THEN {c.active} ELSE {}]
          /\ led_unregistered' = [led_unregistered EXCEPT ![d] = c.unregistered]
          /\ create_log' = [create_log EXCEPT ![d] =
                               [LogOf(c) EXCEPT !.registered = << >>]]
          /\ dev_npem' = [dev_npem EXCEPT ![d] = c.attached /\ c.leds = << >>]
          /\ npem_task' = [npem_task EXCEPT ![d] =
                              IF c.attached /\ c.leds # << >>
                              THEN [NoTask EXCEPT !.pc = "register", !.ctx = "init"]
                              ELSE NoTask]
    /\ UNCHANGED << dev_vars, leds, led_cdev, npem_lock, pc, frame, last_set,
                    cb_io, hw_cc >>

\* the outcomes of pci_npem_create() on d in which the session d has now
\* was built and the registration of LED bit failed with reg_err
RegistrationFailures(d, bit, reg_err) ==
    { c \in CreateOutcomes[dsm_present[d], cap_pos[d]] :
        /\ c.failed = {bit} /\ c.reg_err = reg_err
        /\ c.registered = leds[d]
        /\ c.caps = create_log[d].caps /\ c.st = create_log[d].st
        /\ c.sup = create_log[d].sup /\ c.cap = create_log[d].cap
        /\ c.funcs = create_log[d].funcs }

\* the LED core is about to call the callback op of the LED bit of d
LedCoreCalls(d, bit, op, on) ==
    /\ pc' = [pc EXCEPT ![LedCore] = "called"]
    /\ frame' = [frame EXCEPT ![LedCore] =
                    [NoFrame EXCEPT !.op = op, !.dev = d, !.bit = bit, !.on = on]]

\* pci_npem_init(): one turn of the LED loop for the next supported
\* indication, pci_npem_set_led_classdev().  When led_classdev_register()
\* has created the LED its callbacks can be invoked at once, before the
\* loop goes on and before dev->npem is set, and the LED core itself calls
\* brightness_get() before led_classdev_register() returns ("get_brightness()
\* is called on registration path").  When it failed npem_free() is entered.
InitRegister(d) ==
    /\ npem_task[d].pc = "register" /\ pc[LedCore] = "idle"
    /\ LET order == LedOrder(supported_indications[d])
           i == Len(leds[d]) + 1
       IN  /\ i <= Len(order)
           /\ \/ /\ leds' = [leds EXCEPT ![d] = Append(@, order[i])]
                 /\ led_cdev' = [led_cdev EXCEPT ![d] = @ \cup {order[i]}]
                 /\ create_log' = [create_log EXCEPT
                                      ![d].registered = Append(@, order[i])]
                 /\ LedCoreCalls(d, order[i], "get", FALSE)
                 /\ UNCHANGED npem_task
              \/ \E reg_err \in RegErrors :
                 \E c \in RegistrationFailures(d, order[i], reg_err) :
                    /\ create_log' = [create_log EXCEPT ![d] = LogOf(c)]
                    /\ npem_task' = [npem_task EXCEPT ![d] =
                                        [pc |-> "free", todo |-> c.unregistered,
                                         ctx |-> "init"]]
                    /\ UNCHANGED << leds, led_cdev, pc, frame >>
    /\ UNCHANGED << dev_vars, probed, dev_npem, ops, supported_indications,
                    active_indications, kfree_cnt, led_unregistered, npem_lock,
                    reg_touched, last_set, expect, cb_io, hw_cc >>

\* pci_npem_init(): the last led_classdev_register() has returned;
\* dev->npem = npem; return 0
InitAttach(d) ==
    /\ npem_task[d].pc = "register" /\ pc[LedCore] = "idle"
    /\ Len(leds[d]) = Len(LedOrder(supported_indications[d]))
    /\ dev_npem' = [dev_npem EXCEPT ![d] = TRUE]
    /\ npem_task' = [npem_task EXCEPT ![d] = NoTask]
    /\ UNCHANGED << dev_vars, probed, ops, supported_indications,
                    active_indications, leds, led_cdev, kfree_cnt, create_log,
                    led_unregistered, npem_lock, pc, frame, reg_touched,
                    last_set, expect, cb_io, hw_cc >>

\* the LED callbacks of d can be invoked: its LEDs are registered
Live(d) == dev_npem[d] /\ kfree_cnt[d] = 0

\* thread t is inside a callback of the LED bit of d
InLedCall(t, d, bit) ==
    pc[t] \notin {"idle", "ret"} /\ frame[t].dev = d /\ frame[t].bit = bit

\* npem_free(): led_classdev_unregister() of the next LED that has a name
\* is entered; the LED core turns the LED off with brightness_set(LED_OFF)
\* while the callbacks of the LED can still be invoked.
FreeLedOff(d) ==
    /\ npem_task[d].pc = "free" /\ npem_task[d].todo # << >>
    /\ pc[LedCore] = "idle"
    /\ LedCoreCalls(d, Head(npem_task[d].todo), "set", FALSE)
    /\ npem_task' = [npem_task EXCEPT ![d].pc = "unreg"]
    /\ UNCHANGED << dev_vars, probed, dev_npem, ops, supported_indications,
                    active_indications, leds, led_cdev, kfree_cnt, create_log,
                    led_unregistered, npem_lock, reg_touched, last_set, expect,
                    cb_io, hw_cc >>

\* npem_free(): led_classdev_unregister() removes the LED and returns.  It
\* waits for the running callbacks of that LED; the callbacks of the LEDs
\* not yet unregistered can still be invoked.
FreeLed(d) ==
    /\ npem_task[d].pc = "unreg" /\ pc[LedCore] = "idle"
    /\ LET bit == Head(npem_task[d].todo)
       IN  /\ \A t \in Threads : ~InLedCall(t, d, bit)
           /\ led_cdev' = [led_cdev EXCEPT ![d] = @ \ {bit}]
           /\ led_unregistered' = [led_unregistered EXCEPT ![d] = Append(@, bit)]
           /\ npem_task' = [npem_task EXCEPT ![d].todo = Tail(@), ![d].pc = "free"]
    /\ UNCHANGED << dev_vars, probed, dev_npem, ops, supported_indications,
                    active_indications, leds, kfree_cnt, create_log, npem_lock,
                    pc, frame, reg_touched, last_set, expect, cb_io, hw_cc >>

\* npem_free(): mutex_destroy(), kfree(npem): the cache is gone with the
\* struct.  After a failed pci_npem_init() the device has no struct npem;
\* pci_npem_remove() leaves dev->npem pointing to the freed struct, whose
\* ops and supported set the model keeps on record.
FreeDone(d) ==
    /\ npem_task[d].pc = "free" /\ npem_task[d].todo = << >>
    /\ kfree_cnt' = [kfree_cnt EXCEPT ![d] = @ + 1]
    /\ leds' = [leds EXCEPT ![d] = << >>]
    /\ npem_task' = [npem_task EXCEPT ![d] = NoTask]
    /\ active_indications' = [active_indications EXCEPT ![d] = {}]
    /\ expect' = [expect EXCEPT ![d] = {}]
    /\ last_set' = [last_set EXCEPT ![d] = {}]
    /\ IF npem_task[d].ctx = "init"
       THEN /\ ops' = [ops EXCEPT ![d] = "none"]
            /\ supported_indications' = [supported_indications EXCEPT ![d] = {}]
       ELSE UNCHANGED << ops, supported_indications >>
    /\ UNCHANGED << dev_vars, probed, dev_npem, led_cdev, led_unregistered,
                    create_log, npem_lock, pc, frame, reg_touched, cb_io, hw_cc >>

\* what a pci_npem_remove() that is handed a freed struct npem can do
FreedReads == { "stale", "zeroes", "oops" }

\* pci_npem_remove(dev): npem_free(dev->npem) if dev->npem is set; dev->npem
\* is left as it is, so a later call hands the freed struct to npem_free()
\* again: what it reads there is the old contents (stale: the LEDs are
\* unregistered again and kfree() is called once more), zeroes (kfree()
\* only) or a poison pattern (oops: the kernel faults on the LED it takes
\* from the struct).
Remove(d) ==
    /\ probed[d] /\ npem_task[d].pc = "none"
    /\ LET slots == LedSlots(create_log[d].registered,
                             Len(create_log[d].registered),
                             Len(create_log[d].registered))
       IN  IF ~dev_npem[d]
           THEN UNCHANGED << kfree_cnt, led_unregistered, npem_task >>
           ELSE /\ kfree_cnt[d] < MaxRemoves
                /\ IF kfree_cnt[d] = 0
                   THEN /\ npem_task' = [npem_task EXCEPT ![d] =
                                            [pc |-> "free", todo |-> npem_free(slots),
                                             ctx |-> "remove"]]
                        /\ UNCHANGED << kfree_cnt, led_unregistered >>
                   ELSE \E freed \in FreedReads :
                        /\ npem_task' = [npem_task EXCEPT ![d].pc =
                                            IF freed = "oops" THEN "oops" ELSE @]
                        /\ kfree_cnt' = [kfree_cnt EXCEPT ![d] =
                                            IF freed = "oops" THEN @ ELSE @ + 1]
                        /\ led_unregistered' = [led_unregistered EXCEPT ![d] =
                                                   IF freed = "stale"
                                                   THEN @ \o npem_free(slots)
                                                   ELSE @]
    /\ UNCHANGED << dev_vars, probed, dev_npem, ops, supported_indications,
                    active_indications, leds, led_cdev, npem_lock, pc, frame,
                    reg_touched, last_set, expect, create_log, cb_io, hw_cc >>

(***************************************************************************)
(* brightness_set() and brightness_get(), step by step.                    *)
(*                                                                         *)
(* pc: "idle" -> (set) "npem_write" -> "npem_poll" [-> "npem_poll_last"]   *)
(*     -> "npem_readback" -> "unlock" -> "ret" -> "idle", or               *)
(*     (set, _DSM) "dsm_set" -> "unlock" -> "ret", or                      *)
(*     (get) "unlock" -> "ret"; an interrupted lock wait goes to "ret".    *)
(* The LED core starts from "called" (it has the call to make) instead of  *)
(* "idle".                                                                 *)
(* Between "idle" and "unlock" the caller is inside the locked region.     *)
(***************************************************************************)
\* a brightness_set() / brightness_get() that does not wait for the lock
brightness_set_no_lock(d) == TRUE

brightness_get_no_lock(d) == TRUE

\* a brightness_get() that waits for one lock shared by all devices
brightness_get_global_lock(d) == \A e \in Devices : npem_lock[e] = 0

\* mutex_lock_interruptible(&npem->npem_lock) in brightness_set() / in
\* brightness_get() returns 0 only when nobody holds the lock
brightness_set_can_lock(d) == npem_lock[d] = 0

brightness_get_can_lock(d) == npem_lock[d] = 0

\* the set of d was echoed by the backend so far / is not any more
HistEcho(d, t, echoed) ==
    IF echoed /\ expect[d] # {}
    THEN /\ last_set' = [last_set EXCEPT ![d] =
                            {[bit |-> frame[t].bit, on |-> frame[t].on]}]
         /\ expect' = [expect EXCEPT ![d] =
                          { brightness_set_indications(e, frame[t].bit, frame[t].on)
                            : e \in expect[d] }]
    ELSE /\ last_set' = [last_set EXCEPT ![d] = {}]
         /\ expect' = [expect EXCEPT ![d] = {}]

\* thread t enters the callback op of the LED bit of d: a caller can do so
\* while the LED is registered, the LED core when it has the call to make
Calling(t, d, bit, op, on) ==
    IF t = LedCore
    THEN /\ pc[t] = "called" /\ frame[t].op = op /\ frame[t].dev = d
         /\ frame[t].bit = bit /\ frame[t].on = on
    ELSE pc[t] = "idle" /\ bit \in led_cdev[d]

\* brightness_set(): the lock is taken, the new mask is computed from the cache
brightness_set_lock(t, d, bit, on) ==
    /\ Calling(t, d, bit, "set", on)
    /\ brightness_set_can_lock(d)
    /\ npem_lock' = [npem_lock EXCEPT ![d] = t]
    /\ frame' = [frame EXCEPT ![t] =
                    [NoFrame EXCEPT !.op = "set", !.dev = d, !.bit = bit, !.on = on,
                        !.val = brightness_set_indications(active_indications[d], bit, on),
                        !.pre = active_indications[d],
                        !.repeat = ([bit |-> bit, on |-> on] \in last_set[d])]]
    /\ pc' = [pc EXCEPT ![t] = IF ops[d] = "dsm_ops" THEN "dsm_set" ELSE "npem_write"]
    /\ create_log' = [create_log EXCEPT ![d].initial = FALSE, ![d].raw = {}]
    /\ UNCHANGED << dev_vars, probed, dev_npem, ops, supported_indications, leds,
                    kfree_cnt, led_unregistered, active_indications, reg_touched,
                    last_set, expect, cb_io, hw_cc, led_cdev, npem_task >>

\* what brightness_get() / brightness_set() return when
\* mutex_lock_interruptible() returned ret # 0, returning val instead
brightness_interrupted_return_val(ret, val) == val

\* what brightness_get() / brightness_set() return when
\* mutex_lock_interruptible() returned ret # 0: "if (ret) return ret;"
brightness_interrupted_return(ret, val) == ret

\* brightness_get() / brightness_set(): the wait for the lock is interrupted
mutex_lock_interrupted(t, d, bit, op) ==
    /\ \E on \in BOOLEAN : Calling(t, d, bit, op, on)
    /\ npem_lock[d] # 0
    /\ frame' = [frame EXCEPT ![t] =
                    [NoFrame EXCEPT !.op = op, !.dev = d,
                        !.ret = brightness_interrupted_return(-EINTR, LED_OFF)]]
    /\ pc' = [pc EXCEPT ![t] = "ret"]
    /\ UNCHANGED << dev_vars, session_vars, active_indications, npem_lock,
                    reg_touched, last_set, expect, cb_io, hw_cc >>

\* an npem_set_active_indications() that writes again when the write failed
npem_after_write_retry(ret) == IF ret # 0 THEN "npem_write" ELSE "npem_poll"

\* npem_set_active_indications() after npem_write_ctrl(): "if (ret) return
\* ret;", else the completion poll
npem_after_write(ret) == IF ret # 0 THEN "unlock" ELSE "npem_poll"

\* npem_set_active_indications(): val |= PCI_NPEM_CTRL_ENABLE; npem_write_ctrl()
\* The driver never writes the status register, so nothing it does clears
\* PCI_NPEM_STATUS_CC; clear: the device itself clears the bit when it
\* takes the new command.
npem_set_write(t) ==
    /\ pc[t] = "npem_write"
    /\ \E w \in ConfigWrites, clear \in BOOLEAN :
          LET d == frame[t].dev
              ret == npem_write_ctrl(w)
          IN  /\ hw_cc' = [hw_cc EXCEPT ![d] = @ /\ ~(ret = 0 /\ clear)]
              /\ frame' = [frame EXCEPT ![t].val = @ \cup {PCI_NPEM_CTRL_ENABLE},
                                        ![t].wrote = @ + 1,
                                        ![t].ret = ret,
                                        ![t].echo = (ret = 0)]
              /\ pc' = [pc EXCEPT ![t] = npem_after_write(ret)]
              /\ reg_touched' = [reg_touched EXCEPT ![d] = TRUE]
              /\ cb_io' = [cb_io EXCEPT ![d] = (@ + 1) % 2]
              /\ IF ret # 0 THEN HistEcho(d, t, FALSE)
                 ELSE UNCHANGED << last_set, expect >>
    /\ UNCHANGED << dev_vars, session_vars, active_indications, npem_lock >>

\* the condition of read_poll_timeout(): ret_val || (cc_status & PCI_NPEM_STATUS_CC)
poll_cond(rd) == rd.ret # 0 \/ PCI_NPEM_STATUS_CC \in rd.buf

\* what npem_set_active_indications() returns when read_poll_timeout()
\* returned ret # 0: "if (ret) return ret_val;"
npem_poll_failed_return(ret, ret_val) == ret_val

\* a read_poll_timeout() whose clock stands still
poll_elapsed_stuck(polls) == polls

\* read_poll_timeout(): the time used after one more status read and sleep;
\* the deadline (1 s) falls at MaxPolls at the latest
poll_elapsed(polls) == polls + 1

\* the status register of a device whose command completed bit is cc
StatusReg(cc) == IF cc THEN {PCI_NPEM_STATUS_CC} ELSE {}

\* read_poll_timeout(): one status read inside the deadline.  complete: the
\* device has completed the command of this call since the last read, which
\* sets PCI_NPEM_STATUS_CC; a successful read that shows the bit without it
\* saw the bit an earlier command left (stale_cc).
npem_set_poll(t) ==
    /\ pc[t] = "npem_poll"
    /\ \E complete \in BOOLEAN, expired \in BOOLEAN :
       \E r \in ConfigReads({StatusReg(hw_cc[frame[t].dev] \/ complete)}) :
          LET d == frame[t].dev
              rd == npem_read_reg(r, {})
          IN  /\ reg_touched' = [reg_touched EXCEPT ![d] = TRUE]
              /\ cb_io' = [cb_io EXCEPT ![d] = (@ + 1) % 2]
              /\ hw_cc' = [hw_cc EXCEPT ![d] = @ \/ complete]
              /\ IF poll_cond(rd)
                 THEN /\ frame' = [frame EXCEPT
                                      ![t].echo = @ /\ rd.ret = 0,
                                      ![t].ret_val = rd.ret,
                                      ![t].cc = PCI_NPEM_STATUS_CC \in rd.buf,
                                      ![t].stale_cc =
                                          /\ rd.ret = 0
                                          /\ PCI_NPEM_STATUS_CC \in rd.buf
                                          /\ ~complete]
                      /\ pc' = [pc EXCEPT ![t] = "npem_readback"]
                 ELSE IF expired \/ poll_elapsed(frame[t].polls) >= MaxPolls
                 THEN /\ frame' = [frame EXCEPT ![t].polls = 0]
                      /\ pc' = [pc EXCEPT ![t] = "npem_poll_last"]
                 ELSE /\ frame' = [frame EXCEPT ![t].polls = poll_elapsed(@)]
                      /\ pc' = pc
    /\ UNCHANGED << dev_vars, session_vars, active_indications, npem_lock,
                    last_set, expect >>

\* read_poll_timeout(): the deadline has passed; the status is read once
\* more and the macro yields cond ? 0 : -ETIMEDOUT.  late: the device
\* completes the command after the poll has given up.
npem_set_poll_last(t) ==
    /\ pc[t] = "npem_poll_last"
    /\ \E complete \in BOOLEAN, late \in BOOLEAN :
       \E r \in ConfigReads({StatusReg(hw_cc[frame[t].dev] \/ complete)}) :
          LET d == frame[t].dev
              rd == npem_read_reg(r, {})
              ret == IF poll_cond(rd) THEN 0 ELSE -ETIMEDOUT
          IN  /\ reg_touched' = [reg_touched EXCEPT ![d] = TRUE]
              /\ cb_io' = [cb_io EXCEPT ![d] = (@ + 1) % 2]
              /\ hw_cc' = [hw_cc EXCEPT ![d] = @ \/ complete \/ (ret # 0 /\ late)]
              /\ IF ret = 0
                 THEN /\ frame' = [frame EXCEPT
                                      ![t].echo = @ /\ rd.ret = 0,
                                      ![t].ret_val = rd.ret,
                                      ![t].cc = PCI_NPEM_STATUS_CC \in rd.buf,
                                      ![t].stale_cc =
                                          /\ rd.ret = 0
                                          /\ PCI_NPEM_STATUS_CC \in rd.buf
                                          /\ ~complete]
                      /\ pc' = [pc EXCEPT ![t] = "npem_readback"]
                      /\ UNCHANGED << last_set, expect >>
                 ELSE /\ frame' = [frame EXCEPT
                                      ![t].ret = npem_poll_failed_return(ret, rd.ret),
                                      ![t].timed_out = TRUE,
                                      ![t].echo = FALSE]
                      /\ pc' = [pc EXCEPT ![t] = "unlock"]
                      /\ HistEcho(d, t, FALSE)
    /\ UNCHANGED << dev_vars, session_vars, active_indications, npem_lock >>

\* the buffer npem_set_active_indications() hands to
\* npem_get_active_indications() after the poll: the cache itself
npem_readback_buf(active) == active

\* npem_set_active_indications(): return npem_get_active_indications(npem,
\* &npem->active_indications)
npem_set_readback(t) ==
    /\ pc[t] = "npem_readback"
    /\ \E r \in ConfigReads({frame[t].val} \cup ClampValues) :
          LET d == frame[t].dev
              g == npem_get_active_indications(r,
                       npem_readback_buf(active_indications[d]),
                       supported_indications[d])
              echoed == frame[t].echo /\ r.err = 0 /\ r.data = frame[t].val
          IN  /\ active_indications' = [active_indications EXCEPT ![d] = g.buf]
              /\ frame' = [frame EXCEPT ![t].ret = g.ret,
                                        ![t].reported = IF g.ret = 0 THEN {g.buf} ELSE {},
                                        ![t].raw = IF g.ret = 0 THEN r.data ELSE {},
                                        ![t].cc = FALSE,
                                        ![t].ret_val = 0,
                                        ![t].echo = echoed]
              /\ reg_touched' = [reg_touched EXCEPT ![d] = TRUE]
              /\ cb_io' = [cb_io EXCEPT ![d] = (@ + 1) % 2]
              /\ HistEcho(d, t, echoed)
    /\ pc' = [pc EXCEPT ![t] = "unlock"]
    /\ UNCHANGED << dev_vars, session_vars, npem_lock, hw_cc >>

\* dsm_set_active_indications(npem, indications)
dsm_set(t) ==
    /\ pc[t] = "dsm_set"
    /\ \E out \in DsmOutputs({frame[t].val} \cup ClampValues) :
          LET d == frame[t].dev
              s == dsm_set_active_indications(out, active_indications[d])
              echoed == s.ret = 0 /\ out.state = frame[t].val
          IN  /\ active_indications' = [active_indications EXCEPT ![d] = s.active]
              /\ frame' = [frame EXCEPT ![t].ret = s.ret,
                                        ![t].wrote = @ + 1,
                                        ![t].reported = IF s.ret = 0 THEN {out.state} ELSE {},
                                        ![t].dsm = DsmKind(out),
                                        ![t].funcs = {dsm_evaluate_func(SET_STATE_DSM)},
                                        ![t].echo = echoed]
              /\ cb_io' = [cb_io EXCEPT ![d] = (@ + 1) % 2]
              /\ HistEcho(d, t, echoed)
    /\ pc' = [pc EXCEPT ![t] = "unlock"]
    /\ UNCHANGED << dev_vars, session_vars, npem_lock, reg_touched, hw_cc >>

\* a brightness_get() that refreshes the cache from the backend
brightness_get_io_refresh(io) == (io + 1) % 2

\* brightness_get(): the parity of the backend accesses after it; it does
\* not use ops->get_active_indications()
brightness_get_io(io) == io

\* brightness_get(): the lock is taken and the cached bit is read
brightness_get_lock(t, d, bit) ==
    /\ Calling(t, d, bit, "get", FALSE)
    /\ brightness_get_can_lock(d)
    /\ npem_lock' = [npem_lock EXCEPT ![d] = t]
    /\ frame' = [frame EXCEPT ![t] =
                    [NoFrame EXCEPT !.op = "get", !.dev = d, !.bit = bit,
                        !.pre = active_indications[d],
                        !.ret = brightness_get_val(active_indications[d], bit)]]
    /\ pc' = [pc EXCEPT ![t] = "unlock"]
    /\ cb_io' = [cb_io EXCEPT ![d] = brightness_get_io(@)]
    /\ UNCHANGED << dev_vars, session_vars, active_indications, reg_touched,
                    last_set, expect, hw_cc >>

\* mutex_unlock(&npem->npem_lock); return.  The count of the accesses of a
\* brightness_set() ends with it.
mutex_unlock(t) ==
    /\ pc[t] = "unlock"
    /\ npem_lock' = [npem_lock EXCEPT ![frame[t].dev] = 0]
    /\ pc' = [pc EXCEPT ![t] = "ret"]
    /\ frame' = [frame EXCEPT ![t] =
                    [NoFrame EXCEPT !.op = frame[t].op, !.dev = frame[t].dev,
                                    !.ret = frame[t].ret]]
    /\ cb_io' = [cb_io EXCEPT ![frame[t].dev] = IF frame[t].op = "set" THEN 0 ELSE @]
    /\ UNCHANGED << dev_vars, session_vars, active_indications,
                    reg_touched, last_set, expect, hw_cc >>

\* the caller has the return value; the thread is free for the next call
Return(t) ==
    /\ pc[t] = "ret"
    /\ pc' = [pc EXCEPT ![t] = "idle"]
    /\ frame' = [frame EXCEPT ![t] = NoFrame]
    /\ UNCHANGED << dev_vars, session_vars, active_indications, npem_lock,
                    reg_touched, last_set, expect, cb_io, hw_cc >>

\* the caller that invokes the callbacks while the device is probed and
\* removed; next to it runs the LED core
ProbeCallers == { t \in Callers : t <= 1 }

Next ==
    \/ \E d \in present : Create(d)
    \/ \E d \in present : InitRegister(d)
    \/ \E d \in present : InitAttach(d)
    \/ \E d \in present : Remove(d)
    \/ \E d \in present : FreeLedOff(d)
    \/ \E d \in present : FreeLed(d)
    \/ \E d \in present : FreeDone(d)
    \/ \E t \in ProbeCallers \cup {LedCore}, d \in present, bit \in AllOnes,
          on \in BOOLEAN :
          brightness_set_lock(t, d, bit, on)
    \/ \E t \in ProbeCallers \cup {LedCore}, d \in present, bit \in AllOnes,
          op \in {"get", "set"} :
          mutex_lock_interrupted(t, d, bit, op)
    \/ \E t \in ProbeCallers \cup {LedCore}, d \in present, bit \in AllOnes :
          brightness_get_lock(t, d, bit)
    \/ \E t \in Threads : npem_set_write(t)
    \/ \E t \in Threads : npem_set_poll(t)
    \/ \E t \in Threads : npem_set_poll_last(t)
    \/ \E t \in Threads : npem_set_readback(t)
    \/ \E t \in Threads : dsm_set(t)
    \/ \E t \in Threads : mutex_unlock(t)
    \/ \E t \in Threads : Return(t)

Spec == Init /\ [][Next]_vars

\* the steps of a thread that holds npem_lock inside brightness_set() or
\* brightness_get(): no step waits for anything but the device, so the
\* scheduler lets the thread take them
CallStep(t) ==
    \/ npem_set_write(t)
    \/ npem_set_poll(t)
    \/ npem_set_poll_last(t)
    \/ npem_set_readback(t)
    \/ dsm_set(t)
    \/ mutex_unlock(t)

\* Spec with threads that keep running inside a call
SpecLive == Init /\ [][Next]_vars /\ \A t \in Threads : WF_vars(CallStep(t))

\* one device whose session pci_npem_create() has built (any session it can
\* build that has LEDs) and attached; nobody is inside a callback yet
InitSmp ==
    /\ EmIdle
    /\ present = {"dev0"}
    /\ \E has_dsm \in BOOLEAN, pos \in {0, NpemPos} :
       \E c \in CreateOutcomes[has_dsm, pos] :
          /\ c.attached /\ c.leds # << >>
          /\ dsm_present = [d \in Devices |-> d = "dev0" /\ has_dsm]
          /\ cap_pos = [d \in Devices |-> IF d = "dev0" THEN pos ELSE 0]
          /\ ops = [d \in Devices |-> IF d = "dev0" THEN c.ops ELSE "none"]
          /\ supported_indications = [d \in Devices |->
                                         IF d = "dev0" THEN c.supported ELSE {}]
          /\ active_indications = [d \in Devices |->
                                      IF d = "dev0" THEN c.active ELSE {}]
          /\ leds = [d \in Devices |-> IF d = "dev0" THEN c.leds ELSE << >>]
          /\ led_cdev = [d \in Devices |-> IF d = "dev0" THEN Range(c.leds) ELSE {}]
          /\ create_log = [d \in Devices |-> IF d = "dev0" THEN LogOf(c) ELSE NoLog]
          /\ reg_touched = [d \in Devices |-> d = "dev0" /\ c.touched]
          /\ expect = [d \in Devices |-> IF d = "dev0" THEN {c.active} ELSE {}]
    /\ probed = [d \in Devices |-> d = "dev0"]
    /\ dev_npem = [d \in Devices |-> d = "dev0"]
    /\ npem_lock = [d \in Devices |-> 0]
    /\ kfree_cnt = [d \in Devices |-> 0]
    /\ pc = [t \in Threads |-> "idle"]
    /\ frame = [t \in Threads |-> NoFrame]
    /\ last_set = [d \in Devices |-> {}]
    /\ led_unregistered = [d \in Devices |-> << >>]
    /\ cb_io = [d \in Devices |-> 0]
    /\ hw_cc = [d \in Devices |-> FALSE]
    /\ npem_task = [d \in Devices |-> NoTask]

\* the callers of the LED callbacks of an attached session, all at once
NextSmp ==
    \/ \E t \in Callers, d \in present, bit \in AllOnes, on \in BOOLEAN :
          brightness_set_lock(t, d, bit, on)
    \/ \E t \in Callers, d \in present, bit \in AllOnes, op \in {"get", "set"} :
          mutex_lock_interrupted(t, d, bit, op)
    \/ \E t \in Callers, d \in present, bit \in AllOnes : brightness_get_lock(t, d, bit)
    \/ \E t \in Callers : npem_set_write(t)
    \/ \E t \in Callers : npem_set_poll(t)
    \/ \E t \in Callers : npem_set_poll_last(t)
    \/ \E t \in Callers : npem_set_readback(t)
    \/ \E t \in Callers : dsm_set(t)
    \/ \E t \in Callers : mutex_unlock(t)
    \/ \E t \in Callers : Return(t)

SpecSmp == InitSmp /\ [][NextSmp]_vars

\* two devices: dev0 has the _DSM and no capability and its session (locate
\* and fail supported, fail active) exists already; dev1 has the
\* capability only and is not probed yet
InitTwo ==
    /\ EmIdle
    /\ present = Devices
    /\ dsm_present = [d \in Devices |-> d = "dev0"]
    /\ cap_pos = [d \in Devices |-> IF d = "dev1" THEN NpemPos ELSE 0]
    /\ probed = [d \in Devices |-> d = "dev0"]
    /\ dev_npem = [d \in Devices |-> d = "dev0"]
    /\ ops = [d \in Devices |-> IF d = "dev0" THEN "dsm_ops" ELSE "none"]
    /\ \E c \in CreateOutcomes[TRUE, 0] :
          /\ c.attached /\ c.active = {PCI_NPEM_IND_FAIL}
          /\ c.supported = {PCI_NPEM_IND_LOCATE, PCI_NPEM_IND_FAIL}
          /\ supported_indications = [d \in Devices |->
                                         IF d = "dev0" THEN c.supported ELSE {}]
          /\ leds = [d \in Devices |-> IF d = "dev0" THEN c.leds ELSE << >>]
          /\ led_cdev = [d \in Devices |-> IF d = "dev0" THEN Range(c.leds) ELSE {}]
          /\ create_log = [d \in Devices |-> IF d = "dev0" THEN LogOf(c) ELSE NoLog]
    /\ active_indications = [d \in Devices |->
                                 IF d = "dev0" THEN {PCI_NPEM_IND_FAIL} ELSE {}]
    /\ npem_lock = [d \in Devices |-> 0]
    /\ kfree_cnt = [d \in Devices |-> 0]
    /\ pc = [t \in Threads |-> "idle"]
    /\ frame = [t \in Threads |-> NoFrame]
    /\ reg_touched = [d \in Devices |-> FALSE]
    /\ last_set = [d \in Devices |-> {}]
    /\ expect = [d \in Devices |-> IF d = "dev0" THEN {{PCI_NPEM_IND_FAIL}} ELSE {}]
    /\ led_unregistered = [d \in Devices |-> << >>]
    /\ cb_io = [d \in Devices |-> 0]
    /\ hw_cc = [d \in Devices |-> FALSE]
    /\ npem_task = [d \in Devices |-> NoTask]

\* the device whose LEDs thread t works on in the two-device runs
Affinity(t) == IF t % 2 = 1 THEN "dev0" ELSE "dev1"

\* the callers of the two-device runs work on dev0; the callbacks of dev1
\* are invoked by the LED core while dev1 is probed and removed
TwoCallers == { t \in Callers : Affinity(t) = "dev0" }

\* the LED the callbacks are invoked on in the two-device runs
TwoKinds == { PCI_NPEM_IND_LOCATE }

\* the device pci_npem_remove() is called on in the two-device runs: dev1 is
\* created and removed while the session of dev0 is in use
TwoRemoved == { "dev1" }

NextTwo ==
    \/ \E d \in present : Create(d)
    \/ \E d \in present : InitRegister(d)
    \/ \E d \in present : InitAttach(d)
    \/ \E d \in TwoRemoved : Remove(d)
    \/ \E d \in TwoRemoved : FreeLedOff(d)
    \/ \E d \in TwoRemoved : FreeLed(d)
    \/ \E d \in TwoRemoved : FreeDone(d)
    \/ \E t \in TwoCallers, bit \in TwoKinds, on \in BOOLEAN :
          brightness_set_lock(t, Affinity(t), bit, on)
    \/ \E t \in TwoCallers, bit \in TwoKinds : brightness_get_lock(t, Affinity(t), bit)
    \/ \E d \in present, bit \in AllOnes :
          \/ brightness_set_lock(LedCore, d, bit, FALSE)
          \/ brightness_get_lock(LedCore, d, bit)
    \/ \E t \in Threads : npem_set_write(t)
    \/ \E t \in Threads : npem_set_poll(t)
    \/ \E t \in Threads : npem_set_poll_last(t)
    \/ \E t \in Threads : npem_set_readback(t)
    \/ \E t \in Threads : dsm_set(t)
    \/ \E t \in Threads : mutex_unlock(t)
    \/ \E t \in Threads : Return(t)

SpecTwo == InitTwo /\ [][NextTwo]_vars

(***************************************************************************)
(* The enclosure-class revision, drivers/pci/pcie_em.c: no cache and no    *)
(* lock; every callback reads the active patterns from the backend.        *)
(*                                                                         *)
(* em_pc: "idle" -> "g_status" [-> "g_wait"] -> "g_ctrl" (NPEM) or         *)
(*        "g_dsm" (_DSM) -> (set only) "s_status" [-> "s_wait"]            *)
(*        -> "s_write" (NPEM) or "s_dsm" (_DSM) -> "ret" -> "idle".        *)
(* em_frame.io is the list of backend accesses the running callback made.  *)
(***************************************************************************)
ENCLOSURE_STATUS_UNSUPPORTED == 0
ENCLOSURE_STATUS_OK == 1
ENCLOSURE_STATUS_CRITICAL == 2
ENCLOSURE_STATUS_NON_CRITICAL == 3

NPEM_ENABLED == 0
NPEM_CC == 0

\* enum enclosure_led_pattern values used as arguments
EmPatterns == { "ENCLOSURE_LED_LOCATE", "ENCLOSURE_LED_FAILURE",
                "ENCLOSURE_LED_DISABLED", "ENCLOSURE_LED_UNKNOWN" }

\* to_npem[]: the register bit of a pattern, as a mask
to_npem(ptrn) ==
    CASE ptrn = "ENCLOSURE_LED_NORMAL" -> {2}
      [] ptrn = "ENCLOSURE_LED_LOCATE" -> {3}
      [] ptrn = "ENCLOSURE_LED_FAILURE" -> {4}
      [] ptrn = "ENCLOSURE_LED_REBUILD" -> {5}
      [] ptrn = "ENCLOSURE_LED_PFA" -> {6}
      [] ptrn = "ENCLOSURE_LED_HOTSPARE" -> {7}
      [] ptrn = "ENCLOSURE_LED_ICA" -> {8}
      [] ptrn = "ENCLOSURE_LED_IFA" -> {9}
      [] ptrn = "ENCLOSURE_LED_IDT" -> {10}
      [] ptrn = "ENCLOSURE_LED_DISABLED" -> {11}
      [] OTHER -> {}

\* IS_BIT_SET(mask, bit): ((mask & bit) == bit)
IS_BIT_SET(mask, bit) == (mask \cap bit) = bit

\* get_pattern_bit(): the empty mask is the "0 on error"
get_pattern_bit(type, ptrn) ==
    IF ptrn = "ENCLOSURE_LED_UNKNOWN" THEN {}
    ELSE IF type = "PCIE_EM_DSM" /\ ptrn = "ENCLOSURE_LED_DISABLED" THEN {}
    ELSE to_npem(ptrn)

\* pcie_em_is_pattern_supported()
pcie_em_is_pattern_supported(type, supported, ptrn) ==
    LET new_ptrn == get_pattern_bit(type, ptrn) IN
    IF new_ptrn = {} THEN FALSE
    ELSE IS_BIT_SET(supported, new_ptrn)

\* dsm_get() of pcie_em.c: the errno and the output word
dsm_get_em(out, buf) ==
    IF ~out.ok THEN [ret |-> -EIO, buf |-> buf]
    ELSE IF out.status # 0 THEN [ret |-> -EIO, buf |-> buf]
    ELSE [ret |-> 0, buf |-> out.state]

\* dsm_set() of pcie_em.c: the errno
dsm_set_em(out) == IF ~out.ok \/ out.status # 0 THEN -EIO ELSE 0

\* init_dsm(): the errno and private->supported_patterns
init_dsm(sup) ==
    LET g == dsm_get_em(sup, {}) IN
    IF g.ret # 0 THEN [ret |-> -1, supported |-> g.buf]
    ELSE IF IS_BIT_SET(g.buf, {NPEM_ENABLED}) THEN [ret |-> -1, supported |-> g.buf]
    ELSE [ret |-> 0, supported |-> g.buf]

\* pci_has_npem(): the capability exists, its read succeeds and bit 0 is set
pci_has_npem(pos, capr) ==
    /\ pos # 0
    /\ capr.err = 0
    /\ IS_BIT_SET(capr.data, {NPEM_ENABLED})

\* init_npem(): the errno and private->supported_patterns
init_npem(pos, capr) ==
    LET rd == npem_read_reg(capr, {}) IN
    IF pos = 0 THEN [ret |-> -14, supported |-> {}]
    ELSE IF rd.ret # 0 THEN [ret |-> rd.ret, supported |-> rd.buf]
    ELSE IF ~IS_BIT_SET(rd.buf, {NPEM_ENABLED}) THEN [ret |-> -1, supported |-> rd.buf]
    ELSE [ret |-> 0, supported |-> rd.buf]

\* get_pcie_enclosure_management() / pcie_em_create_dev(): the type and the
\* supported patterns of the device created, type "none" if none is; dev_ok
\* is the success of the allocations and of the enclosure registration
get_pcie_enclosure_management(has_dsm, pos, capr, capr2, sup, dev_ok) ==
    IF has_dsm
    THEN LET i == init_dsm(sup) IN
         IF ~dev_ok \/ i.ret # 0 THEN [type |-> "none", supported |-> {}]
         ELSE [type |-> "PCIE_EM_DSM", supported |-> i.supported]
    ELSE IF pci_has_npem(pos, capr)
    THEN LET i == init_npem(pos, capr2) IN
         IF ~dev_ok \/ i.ret # 0 THEN [type |-> "none", supported |-> {}]
         ELSE [type |-> "PCIE_EM_NPEM", supported |-> i.supported]
    ELSE [type |-> "none", supported |-> {}]

\* capability words handed to this revision (the _DSM one has bit 0 clear)
EmCapWords == { {0, 3, 11}, {3, 11}, {0, 3, 4} }

\* get_pcie_enclosure_management() up to the return of
\* enclosure_component_register(): the component is registered and its
\* callbacks can be issued, ecomp->scratch is still NULL. A creation on a
\* device that already has one builds a second device; the state follows the
\* device created last. A creation that fails releases what it built.
EmCreate ==
    /\ em_ecomp # "registered" /\ em_pc = "idle"
    /\ \E has_dsm \in BOOLEAN, pos \in {0, NpemPos},
          capr \in ConfigReads(EmCapWords), capr2 \in ConfigReads(EmCapWords),
          sup \in DsmOutputs(EmCapWords), dev_ok \in BOOLEAN :
          LET c == get_pcie_enclosure_management(has_dsm, pos, capr, capr2,
                                                 sup, dev_ok)
          IN  /\ c.type # "none"
              /\ em_type' = c.type
              /\ em_supported_patterns' = c.supported
    /\ em_ecomp' = "registered"
    /\ UNCHANGED << em_pc, em_frame >>

\* pcie_em_create_dev(): ecomp->scratch = emdev; emdev->edev = edev
EmCreateDone ==
    /\ em_ecomp = "registered"
    /\ em_ecomp' = "scratch"
    /\ UNCHANGED << em_type, em_supported_patterns, em_pc, em_frame >>

\* pcie_em_release_dev(): the enclosure is unregistered, private and emdev
\* are freed
EmRelease ==
    /\ em_ecomp = "scratch" /\ em_pc = "idle"
    /\ em_type' = "none"
    /\ em_ecomp' = "none"
    /\ em_supported_patterns' = {}
    /\ UNCHANGED << em_pc, em_frame >>

\* pcie_em_set_pattern_state() / pcie_em_get_pattern_state(): entry, up to
\* the check of get_pattern_bit(). A callback issued before ecomp->scratch
\* is set dereferences emdev = NULL and the kernel oopses.
EmCall(op, ptrn, state) ==
    /\ em_ecomp # "none" /\ em_pc = "idle"
    /\ em_frame' = [NoEmFrame EXCEPT !.op = op, !.ptrn = ptrn, !.state = state,
                                     !.ret = ENCLOSURE_STATUS_UNSUPPORTED]
    /\ em_pc' = IF em_ecomp = "registered" THEN "oops"
                ELSE IF get_pattern_bit(em_type, ptrn) = {} THEN "ret"
                ELSE IF em_type = "PCIE_EM_DSM" THEN "g_dsm" ELSE "g_status"
    /\ UNCHANGED << em_type, em_ecomp, em_supported_patterns >>

\* the value the callback returns when get_active_patterns() failed
em_get_failed(op) == IF op = "set" THEN ENCLOSURE_STATUS_CRITICAL ELSE 0

\* the callback goes on after get_active_patterns() stored curr_ptrns
em_after_get(f, type, curr) ==
    LET new_ptrn == get_pattern_bit(type, f.ptrn) IN
    IF f.op = "get"
    THEN [pc |-> "ret", f |-> [f EXCEPT !.curr = curr,
                    !.ret = IF IS_BIT_SET(curr, new_ptrn) THEN 1 ELSE 0]]
    ELSE IF f.state = IS_BIT_SET(curr, new_ptrn)
    THEN [pc |-> "ret", f |-> [f EXCEPT !.curr = curr,
                                 !.ret = ENCLOSURE_STATUS_NON_CRITICAL]]
    ELSE [pc |-> IF type = "PCIE_EM_DSM" THEN "s_dsm" ELSE "s_status",
          f |-> [f EXCEPT !.curr = curr,
                    !.new_ptrns = IF f.state THEN curr \cup new_ptrn
                                  ELSE curr \ new_ptrn]]

\* get_active_patterns_npem(): the status read; the wait is entered when the
\* command completed bit IS set
EmGetStatus ==
    /\ em_pc = "g_status"
    /\ \E r \in ConfigReads(StatusValues) :
          LET rd == npem_read_reg(r, {})
              f == [em_frame EXCEPT !.io = Append(@, "read_status")]
          IN  IF rd.ret # 0
              THEN /\ em_frame' = [f EXCEPT !.ret = em_get_failed(f.op), !.failed = TRUE]
                   /\ em_pc' = "ret"
              ELSE /\ em_frame' = [f EXCEPT
                                       !.seen_cc = IS_BIT_SET(rd.buf, {NPEM_CC}),
                                       !.deadline = FALSE]
                   /\ em_pc' = IF IS_BIT_SET(rd.buf, {NPEM_CC}) THEN "g_wait"
                               ELSE "g_ctrl"
    /\ UNCHANGED << em_type, em_ecomp, em_supported_patterns >>

\* wait_for_completion_npem(): one turn of the loop; it ends on a successful
\* read with the completed bit or when the second is over
EmWait(at, next) ==
    /\ em_pc = at
    /\ \E r \in ConfigReads(StatusValues), expired \in BOOLEAN :
          LET rd == npem_read_reg(r, {})
              f == [em_frame EXCEPT !.io = Append(@, "read_status")]
          IN  IF (rd.ret = 0 /\ IS_BIT_SET(rd.buf, {NPEM_CC}))
                 \/ expired \/ f.polls + 1 >= MaxPolls
              THEN /\ em_frame' = [f EXCEPT
                                       !.polls = 0,
                                       !.seen_cc = rd.ret = 0
                                                   /\ IS_BIT_SET(rd.buf, {NPEM_CC}),
                                       !.deadline = ~(rd.ret = 0
                                                      /\ IS_BIT_SET(rd.buf, {NPEM_CC}))]
                   /\ em_pc' = next
              ELSE /\ em_frame' = [f EXCEPT !.polls = @ + 1]
                   /\ em_pc' = at
    /\ UNCHANGED << em_type, em_ecomp, em_supported_patterns >>

\* get_active_patterns_npem(): the control register read
EmGetCtrl ==
    /\ em_pc = "g_ctrl"
    /\ \E r \in ConfigReads(ClampValues \cup {{0, 3}}) :
          LET rd == npem_read_reg(r, {})
              f == [em_frame EXCEPT !.io = Append(@, "read_ctrl")]
              a == em_after_get(f, em_type, rd.buf)
          IN  IF rd.ret # 0
              THEN /\ em_frame' = [f EXCEPT !.ret = em_get_failed(f.op), !.failed = TRUE]
                   /\ em_pc' = "ret"
              ELSE /\ em_frame' = a.f
                   /\ em_pc' = a.pc
    /\ UNCHANGED << em_type, em_ecomp, em_supported_patterns >>

\* get_active_patterns_dsm()
EmGetDsm ==
    /\ em_pc = "g_dsm"
    /\ \E out \in DsmOutputs(ClampValues) :
          LET g == dsm_get_em(out, {})
              f == [em_frame EXCEPT !.io = Append(@, "dsm_get_state")]
              a == em_after_get(f, em_type, g.buf)
          IN  IF g.ret # 0
              THEN /\ em_frame' = [f EXCEPT !.ret = em_get_failed(f.op), !.failed = TRUE]
                   /\ em_pc' = "ret"
              ELSE /\ em_frame' = a.f
                   /\ em_pc' = a.pc
    /\ UNCHANGED << em_type, em_ecomp, em_supported_patterns >>

\* set_active_patterns_npem(): the status read; the wait is entered when the
\* command completed bit is NOT set
EmSetStatus ==
    /\ em_pc = "s_status"
    /\ \E r \in ConfigReads(StatusValues) :
          LET rd == npem_read_reg(r, {})
              f == [em_frame EXCEPT !.io = Append(@, "read_status")]
          IN  IF rd.ret # 0
              THEN /\ em_frame' = [f EXCEPT !.ret = ENCLOSURE_STATUS_CRITICAL]
                   /\ em_pc' = "ret"
              ELSE /\ em_frame' = [f EXCEPT
                                       !.seen_cc = IS_BIT_SET(rd.buf, {NPEM_CC}),
                                       !.deadline = FALSE]
                   /\ em_pc' = IF ~IS_BIT_SET(rd.buf, {NPEM_CC}) THEN "s_wait"
                               ELSE "s_write"
    /\ UNCHANGED << em_type, em_ecomp, em_supported_patterns >>

\* set_active_patterns_npem(): npem_write_ctrl(emdev, val | NPEM_ENABLED)
EmSetWrite ==
    /\ em_pc = "s_write"
    /\ \E w \in ConfigWrites :
          em_frame' = [em_frame EXCEPT
                          !.io = Append(@, "write_ctrl"),
                          !.new_ptrns = @ \cup {NPEM_ENABLED},
                          !.ret = IF npem_write_ctrl(w) # 0
                                  THEN ENCLOSURE_STATUS_CRITICAL
                                  ELSE ENCLOSURE_STATUS_OK]
    /\ em_pc' = "ret"
    /\ UNCHANGED << em_type, em_ecomp, em_supported_patterns >>

\* set_active_patterns_dsm()
EmSetDsm ==
    /\ em_pc = "s_dsm"
    /\ \E out \in DsmOutputs({em_frame.new_ptrns}) :
          em_frame' = [em_frame EXCEPT
                          !.io = Append(@, "dsm_set_state"),
                          !.ret = IF dsm_set_em(out) # 0
                                  THEN ENCLOSURE_STATUS_CRITICAL
                                  ELSE ENCLOSURE_STATUS_OK]
    /\ em_pc' = "ret"
    /\ UNCHANGED << em_type, em_ecomp, em_supported_patterns >>

\* the caller has the result
EmReturn ==
    /\ em_pc = "ret"
    /\ em_pc' = "idle"
    /\ em_frame' = NoEmFrame
    /\ UNCHANGED << em_type, em_ecomp, em_supported_patterns >>

\* the variables of the npem.c revision
npem_vars == << present, dsm_present, cap_pos, probed, dev_npem, ops,
                supported_indications, active_indications, leds, npem_lock,
                kfree_cnt, pc, frame, reg_touched, last_set, expect,
                create_log, led_unregistered, cb_io, hw_cc, led_cdev, npem_task >>

NextEm ==
    \/ EmCreate /\ UNCHANGED npem_vars
    \/ EmCreateDone /\ UNCHANGED npem_vars
    \/ EmRelease /\ UNCHANGED npem_vars
    \/ \E op \in {"get", "set"}, ptrn \in EmPatterns, state \in BOOLEAN :
          EmCall(op, ptrn, state) /\ UNCHANGED npem_vars
    \/ EmGetStatus /\ UNCHANGED npem_vars
    \/ EmWait("g_wait", "g_ctrl") /\ UNCHANGED npem_vars
    \/ EmGetCtrl /\ UNCHANGED npem_vars
    \/ EmGetDsm /\ UNCHANGED npem_vars
    \/ EmSetStatus /\ UNCHANGED npem_vars
    \/ EmWait("s_wait", "s_write") /\ UNCHANGED npem_vars
    \/ EmSetWrite /\ UNCHANGED npem_vars
    \/ EmSetDsm /\ UNCHANGED npem_vars
    \/ EmReturn /\ UNCHANGED npem_vars

\* the enclosure-class revision on its own: no npem.c device exists
InitEm == InitOf({}) /\ EmIdle

SpecEm == InitEm /\ [][NextEm]_vars

(***************************************************************************)
(* Properties of drivers/pci/npem.c.                                       *)
(*                                                                         *)
(* A call of brightness_set()/brightness_get() "returns" in the state      *)
(* pc[t] = "unlock": the return value is fixed and the lock is still held, *)
(* so the cache is what the call leaves behind.                            *)
(***************************************************************************)
Returning(t, op) == pc[t] = "unlock" /\ frame[t].op = op

Locked == { "npem_write", "npem_poll", "npem_poll_last", "npem_readback",
            "dsm_set", "unlock" }

\* C1: in every reachable state of a session the cached Active Set has no
\* bit outside the Supported Set (active & ~supported == 0).
C1_ActiveWithinSupported ==
    \A d \in Devices :
        dev_npem[d] => active_indications[d] \ supported_indications[d] = {}

\* C2: a set on the register backend whose completion poll times out (every
\* status read succeeds, command-complete never shows) returns a timeout
\* error and leaves the cached Active Set at its value before the call.
C2_TimeoutReturnsError ==
    \A t \in Threads :
        Returning(t, "set") /\ frame[t].timed_out
        => /\ frame[t].ret = -ETIMEDOUT
           /\ active_indications[frame[t].dev] = frame[t].pre

\* C3: whenever set returns an error, the cached Active Set is exactly the
\* value it had before the call.
C3_ErrorLeavesCache ==
    \A t \in Threads :
        Returning(t, "set") /\ frame[t].ret # 0
        => active_indications[frame[t].dev] = frame[t].pre

\* C4: after any successful set the cached Active Set is the state the
\* backend reported in that call (the control register read back after
\* completion, as get_active yields it; the state field of the _DSM output).
C4_SuccessIsReadBack ==
    \A t \in Threads :
        Returning(t, "set") /\ frame[t].ret = 0
        => /\ frame[t].reported # {}
           /\ active_indications[frame[t].dev] \in frame[t].reported

\* C5: when the backend echoed the last set(k, on) of a session, a get(k)
\* that follows it returns on (LED_ON after set(k, true), LED_OFF after
\* set(k, false)).
C5_SetThenGet ==
    \A t \in Threads :
        Returning(t, "get")
        => \A ls \in last_set[frame[t].dev] :
               ls.bit = frame[t].bit
               => frame[t].ret = (IF ls.on THEN LED_ON ELSE LED_OFF)

C5_Witness ==
    \E t \in Threads :
        /\ Returning(t, "get")
        /\ [bit |-> frame[t].bit, on |-> TRUE] \in last_set[frame[t].dev]
        /\ frame[t].ret = LED_ON
        /\ ops[frame[t].dev] = "npem_ops"

\* C6: a set(k, true) that directly follows an echoed set(k, true) and is
\* echoed itself leaves the Active Set as the first one left it, and still
\* issues one write command.
C6_Idempotent ==
    \A t \in Threads :
        Returning(t, "set") /\ frame[t].on /\ frame[t].repeat /\ frame[t].echo
        => /\ active_indications[frame[t].dev] = frame[t].pre
           /\ frame[t].wrote = 1

C6_Witness ==
    \E t \in Threads :
        /\ Returning(t, "set") /\ frame[t].on /\ frame[t].repeat /\ frame[t].echo
        /\ frame[t].bit \in active_indications[frame[t].dev]
        /\ frame[t].wrote = 1
        /\ ops[frame[t].dev] = "npem_ops"

\* C8: as long as the backend echoes every set, the cached Active Set is the
\* result of applying the completed sets one after the other (no update is
\* lost: after set(locate, on) and set(fail, on) by two threads both bits
\* are set), and a get returns the bit of that committed value.
C8_Serialized ==
    \A d \in Devices : \A e \in expect[d] :
        /\ active_indications[d] = e
        /\ \A t \in Threads :
               Returning(t, "get") /\ frame[t].dev = d
               => frame[t].ret = brightness_get_val(e, frame[t].bit)

C8_Witness ==
    \E t, u \in Callers :
        /\ t # u
        /\ Returning(t, "set") /\ frame[t].on /\ frame[t].echo
        /\ frame[t].bit = PCI_NPEM_IND_FAIL
        /\ frame[t].pre = {PCI_NPEM_IND_LOCATE}
        /\ pc[u] = "ret" /\ frame[u].op = "set" /\ frame[u].ret = 0
        /\ expect[frame[t].dev] = {{PCI_NPEM_IND_LOCATE, PCI_NPEM_IND_FAIL}}
        /\ active_indications[frame[t].dev] = {PCI_NPEM_IND_LOCATE, PCI_NPEM_IND_FAIL}

\* C9: at most one thread is between taking and releasing a session's lock,
\* and a set (or get) holds the lock at every step from reading the cache
\* through the write, the poll and the cache refresh.
C9_MutualExclusion ==
    \A d \in Devices :
        LET inside == { t \in Threads : pc[t] \in Locked /\ frame[t].dev = d }
        IN  /\ Cardinality(inside) <= 1
            /\ \A t \in inside : npem_lock[d] = t
            /\ inside = {} => npem_lock[d] = 0

C9_Witness ==
    \E t, u \in Threads :
        /\ pc[t] = "npem_poll" /\ frame[t].polls > 0 /\ npem_lock[frame[t].dev] = t
        /\ pc[u] = "ret" /\ frame[u].ret = -EINTR /\ frame[u].dev = frame[t].dev

\* C10: on a device with both the firmware method and the NPEM capability,
\* creation selects the method backend, and neither creation nor any later
\* get or set reads or writes the capability registers.
C10_DsmNeverTouchesRegister ==
    \A d \in Devices :
        dsm_present[d] /\ cap_pos[d] # 0
        => /\ ~reg_touched[d]
           /\ dev_npem[d] => ops[d] = "dsm_ops"

C10_Witness ==
    \E t \in Threads :
        /\ Returning(t, "set") /\ frame[t].wrote = 1 /\ frame[t].ret = 0
        /\ dsm_present[frame[t].dev] /\ cap_pos[frame[t].dev] # 0
        /\ ops[frame[t].dev] = "dsm_ops"

\* C11: pci_npem_remove() is idempotent: however often it is called, no LED
\* is unregistered twice and the struct npem of a device is freed at most once.
C11_RemoveIdempotent ==
    \A d \in Devices :
        /\ kfree_cnt[d] <= 1
        /\ \A i, j \in DOMAIN led_unregistered[d] :
               i # j => led_unregistered[d][i] # led_unregistered[d][j]

\* C12: when the registration of an LED fails in pci_npem_init(), then once
\* pci_npem_init() has returned the LEDs registered before it are unregistered
\* exactly once, the failed one is not, the struct npem is freed, dev->npem
\* stays unset and the error of the registration is what pci_npem_init()
\* returns.
C12_RegistrationUnwound ==
    \A d \in Devices :
        create_log[d].failed # {} /\ npem_task[d].pc = "none"
        => /\ led_unregistered[d] = create_log[d].registered
           /\ create_log[d].failed \cap Range(led_unregistered[d]) = {}
           /\ kfree_cnt[d] = 1
           /\ ~dev_npem[d]
           /\ create_log[d].ret = -create_log[d].reg_err

C12_Witness ==
    \E d \in Devices :
        /\ create_log[d].failed = {PCI_NPEM_IND_FAIL}
        /\ create_log[d].registered = << PCI_NPEM_IND_LOCATE >>
        /\ led_unregistered[d] = << PCI_NPEM_IND_LOCATE >>
        /\ create_log[d].ret = -ENODEV
        /\ npem_task[d].pc = "none"

\* C13: a set on the _DSM backend answered with status 4 and function
\* specific error 1 returns 0, and the cache is the state of the response.
C13_PartialIsSuccess ==
    \A t \in Threads :
        Returning(t, "set") /\ frame[t].dsm = "partial"
        => /\ frame[t].ret = 0
           /\ frame[t].reported # {}
           /\ active_indications[frame[t].dev] \in frame[t].reported

C13_Witness ==
    \E t \in Threads :
        /\ Returning(t, "set") /\ frame[t].dsm = "partial"
        /\ frame[t].ret = 0
        /\ active_indications[frame[t].dev] # frame[t].val
        /\ active_indications[frame[t].dev] # frame[t].pre

\* C14: a _DSM response with a hard failure status, or no or too short a
\* result, makes set return an error with the cache as before the call, and
\* makes the get_active of session creation fail (no session is attached).
C14_HardFailure ==
    /\ \A t \in Threads :
           Returning(t, "set") /\ frame[t].dsm \in {"hard", "noresult"}
           => /\ frame[t].ret # 0
              /\ active_indications[frame[t].dev] = frame[t].pre
    /\ \A d \in Devices :
           create_log[d].st \in {"hard", "noresult"}
           => create_log[d].ret # 0 /\ ~dev_npem[d]

C14_Witness ==
    \E t \in Threads :
        /\ Returning(t, "set") /\ frame[t].dsm = "noresult"
        /\ frame[t].ret = -EIO
        /\ frame[t].pre # {}
        /\ active_indications[frame[t].dev] = frame[t].pre

\* C15: brightness_get() returns LED_ON exactly when the LED's bit is in the
\* cache while it holds the lock, and no step of it (whether a caller or
\* the LED core runs it) accesses the backend or changes the session (cache,
\* supported set, LEDs).
C15_GetIsCacheOnly ==
    /\ [](\A t \in Threads :
             Returning(t, "get")
             => frame[t].ret = (IF frame[t].bit \in active_indications[frame[t].dev]
                                THEN LED_ON ELSE LED_OFF))
    /\ [][\A t \in Threads :
             /\ frame[t].op = "get" \/ frame'[t].op = "get"
             /\ pc[t] # pc'[t] /\ pc'[t] # "called"
             => UNCHANGED << cb_io, reg_touched, active_indications,
                             supported_indications, leds, ops, dev_npem >>]_vars

C15_Witness ==
    \E t \in Threads :
        /\ Returning(t, "get")
        /\ frame[t].ret = LED_ON
        /\ ops[frame[t].dev] = "dsm_ops"
        /\ last_set[frame[t].dev] # {}

\* C16: a brightness_get() or brightness_set() whose wait for the lock is
\* interrupted returns a negative errno (neither LED_ON nor LED_OFF), without
\* a backend access and with the cache and the lock as they were.
C16_InterruptedLock ==
    [][\A t \in Threads :
          pc[t] \in {"idle", "called"} /\ pc'[t] = "ret"
          => /\ frame'[t].ret < 0
             /\ frame'[t].ret \notin {LED_OFF, LED_ON}
             /\ UNCHANGED << cb_io, reg_touched, active_indications, npem_lock >>]_vars

C16_Witness ==
    \E t, u \in Threads :
        /\ pc[t] = "ret" /\ frame[t].op = "get" /\ frame[t].ret = -EINTR
        /\ pc[u] = "npem_readback" /\ frame[u].dev = frame[t].dev

\* C17: after a successful read of the control register by
\* npem_get_active_indications(), the active set is empty when
\* PCI_NPEM_CTRL_ENABLE is clear in the value read, and the value masked with
\* the supported set when it is set.
C17_EnableBitGates ==
    \A t \in Threads :
        /\ Returning(t, "set") /\ ops[frame[t].dev] = "npem_ops"
        /\ frame[t].reported # {}
        => active_indications[frame[t].dev] =
               (IF PCI_NPEM_CTRL_ENABLE \in frame[t].raw
                THEN frame[t].raw \cap supported_indications[frame[t].dev]
                ELSE {})

C17_Witness ==
    \E t \in Threads :
        /\ Returning(t, "set") /\ ops[frame[t].dev] = "npem_ops"
        /\ frame[t].reported # {}
        /\ frame[t].raw = {PCI_NPEM_IND_LOCATE, PCI_NPEM_IND_FAIL}
        /\ frame[t].raw \subseteq supported_indications[frame[t].dev]
        /\ active_indications[frame[t].dev] = {}

\* C18: every value written to the control register has PCI_NPEM_CTRL_ENABLE
\* set, the reset bit clear, and no other bit outside the supported set and
\* the bit of the LED being set.
C18_WrittenValues ==
    \A t \in Threads :
        pc[t] \in {"npem_poll", "npem_poll_last", "npem_readback"}
        => /\ PCI_NPEM_CTRL_ENABLE \in frame[t].val
           /\ PCI_NPEM_CMD_RESET \notin frame[t].val
           /\ frame[t].val \ {PCI_NPEM_CTRL_ENABLE}
                  \subseteq supported_indications[frame[t].dev] \cup {frame[t].bit}

\* C19: the supported set of a session is the capability word masked with
\* the bits of the backend's catalog (no enable, reset or unknown bit), and
\* no step changes it once the session exists.
C19_SupportedFixed ==
    /\ [](\A d \in Devices :
             dev_npem[d]
             => /\ supported_indications[d] =
                       create_log[d].caps \cap IndBits(ops_inds(ops[d]))
                /\ supported_indications[d]
                       \cap {PCI_NPEM_CTRL_ENABLE, PCI_NPEM_CMD_RESET} = {})
    /\ [][\A d \in Devices :
             dev_npem[d] => supported_indications'[d] = supported_indications[d]]_vars

C19_Witness ==
    \E t \in Threads :
        /\ pc[t] = "ret" /\ frame[t].op = "set" /\ frame[t].ret = 0
        /\ create_log[frame[t].dev].caps = {0, 3, 4, 12}
        /\ supported_indications[frame[t].dev] = {PCI_NPEM_IND_LOCATE, PCI_NPEM_IND_FAIL}
        /\ active_indications[frame[t].dev] = {PCI_NPEM_IND_LOCATE, PCI_NPEM_IND_FAIL}

\* the session of device d: supported set, cache, LEDs, lock, attachment
SessionState(d) ==
    << supported_indications[d], active_indications[d], leds[d], npem_lock[d],
       dev_npem[d], ops[d], kfree_cnt[d], led_unregistered[d] >>

\* the device the call thread t is in (or enters with this step) works on
StepDev(t) == IF pc[t] = "idle" THEN frame'[t].dev ELSE frame[t].dev

\* C20: sessions of different devices are independent: a step of a get or
\* set on one device leaves the session of every other device unchanged, no
\* step (create and destroy included) changes two sessions, and a get can
\* take the lock of its session whoever holds the lock of another one.
C20_SessionsIndependent ==
    /\ [][\A t \in Threads : \A e \in Devices :
             pc[t] # pc'[t] /\ e # StepDev(t)
             => SessionState(e)' = SessionState(e)]_vars
    /\ [][\A d, e \in Devices :
             d # e /\ SessionState(d)' # SessionState(d)
             => SessionState(e)' = SessionState(e)]_vars
    /\ [](\A t \in Callers :
             /\ pc[t] = "idle"
             /\ npem_lock[Affinity(t)] = 0
             /\ PCI_NPEM_IND_LOCATE \in led_cdev[Affinity(t)]
             => ENABLED brightness_get_lock(t, Affinity(t), PCI_NPEM_IND_LOCATE))

C20_Witness ==
    \E t, u \in Threads :
        /\ npem_lock["dev0"] = t /\ pc[t] = "dsm_set"
        /\ npem_lock["dev1"] = u /\ pc[u] = "npem_poll"
        /\ active_indications["dev0"] # active_indications["dev1"]

\* C21: one call of set issues at most one control register write (register
\* backend) or one SET_STATE _DSM call (method backend), whether it ends in
\* success, a transport error, a timeout or a rejection by the backend.
C21_NoRetry ==
    \A t \in Threads :
        frame[t].op = "set" => frame[t].wrote <= 1

C21_Witness ==
    \E t, u \in Threads :
        /\ Returning(t, "set") /\ frame[t].ret = -ENODEV /\ frame[t].wrote = 1
        /\ ops[frame[t].dev] = "npem_ops"
        /\ frame[t].pre = {PCI_NPEM_IND_LOCATE}
        /\ pc[u] = "ret" /\ frame[u].ret = -EINTR

\* C22: every _DSM function index handed to acpi_evaluate_dsm_typed() (by
\* session creation and by set) is one of the functions acpi_check_dsm()
\* verified in npem_has_dsm().
C22_DsmFunctionsVerified ==
    /\ \A d \in Devices : create_log[d].funcs \subseteq npem_has_dsm_funcs
    /\ \A t \in Threads : frame[t].funcs \subseteq npem_has_dsm_funcs

\* C23: within one set on the register backend the control write comes
\* first, then the status polls, then the read-back of the control register
\* into the cache; the read-back is reached only after a successful status
\* read that showed PCI_NPEM_STATUS_CC, and the cache is as before the call
\* until then and after a poll that ended by the deadline or a read error.
C23_WriteProtocolOrder ==
    \A t \in Threads :
        /\ pc[t] \in {"npem_poll", "npem_poll_last", "npem_readback"}
           => frame[t].wrote = 1
        /\ pc[t] \in {"npem_write", "npem_poll", "npem_poll_last", "npem_readback"}
           => active_indications[frame[t].dev] = frame[t].pre
        /\ pc[t] = "npem_readback"
           => frame[t].cc /\ frame[t].ret_val = 0 /\ ~frame[t].timed_out

\* C24: when a set on the register backend returns success after its poll
\* saw PCI_NPEM_STATUS_CC, the device set that bit for the command written in
\* this call: the bit an earlier command left set never ends the poll.
C24_CompletionIsOwn ==
    \A t \in Threads :
        Returning(t, "set") /\ frame[t].ret = 0 => ~frame[t].stale_cc

\* C25: every set on the register backend terminates and releases the lock:
\* a thread that is about to write the control register reaches its return
\* with npem_lock no longer held by it (the poll ends at the first failed
\* read, the first command completed bit or the deadline).
C25_SetTerminates ==
    \A t \in Threads :
        (pc[t] = "npem_write") ~> (pc[t] = "ret" /\ npem_lock[frame[t].dev] # t)

C25_Witness ==
    \E t \in Threads :
        /\ pc[t] = "ret" /\ frame[t].op = "set" /\ ops[frame[t].dev] = "npem_ops"
        /\ frame[t].ret = 0 /\ npem_lock[frame[t].dev] = 0
        /\ hw_cc[frame[t].dev]

\* the place of indication bit b in the catalog inds
CatalogIndex(inds, b) == CHOOSE i \in DOMAIN inds : inds[i] = b

\* C26: at every step of a creation, with either backend, npem->leds[] holds
\* LEDs of indications of the Supported Set only, at most one each, in the
\* slots from the first on in the order the catalog declares them, so that
\* their number never exceeds the allocated count (the number of bits of the
\* Supported Set); after a successful creation there is exactly one LED for
\* each indication of the Supported Set.
C26_OneLedPerSupported ==
    \A d \in Devices :
        /\ Range(leds[d]) \subseteq supported_indications[d]
        /\ Len(leds[d]) <= Cardinality(supported_indications[d])
        /\ \A i, j \in DOMAIN leds[d] :
               i < j => CatalogIndex(ops_inds(ops[d]), leds[d][i])
                          < CatalogIndex(ops_inds(ops[d]), leds[d][j])
        /\ Live(d) => Range(leds[d]) = supported_indications[d]

C26_Witness ==
    \E d \in Devices :
        /\ Live(d) /\ create_log[d].initial
        /\ supported_indications[d] = {PCI_NPEM_IND_LOCATE, PCI_NPEM_IND_FAIL}
        /\ leds[d] = << PCI_NPEM_IND_LOCATE, PCI_NPEM_IND_FAIL >>

\* C27: the backend is chosen when the session is created.  On a device with
\* the _DSM only the _DSM backend is used and the capability is not looked
\* at; when the GET_SUPPORTED_STATES query fails there is no session.  On a
\* device without the _DSM only the register backend is used, and there is a
\* session only if the capability was found, its capability register was
\* read and has PCI_NPEM_CAP_CAPABLE set.
C27_BackendChoice ==
    \A d \in Devices :
        probed[d] =>
            /\ dsm_present[d] =>
                  /\ ops[d] # "npem_ops"
                  /\ create_log[d].cap = "none" /\ ~reg_touched[d]
                  /\ create_log[d].sup # "ok" => ~dev_npem[d]
                  /\ dev_npem[d] => ops[d] = "dsm_ops"
            /\ ~dsm_present[d] =>
                  /\ ops[d] # "dsm_ops"
                  /\ create_log[d].sup = "none" /\ create_log[d].funcs = {}
                  /\ create_log[d].cap # "ok" => ~dev_npem[d]
                  /\ dev_npem[d] => ops[d] = "npem_ops" /\ cap_pos[d] # 0

C27_Witness ==
    \E d \in Devices :
        /\ probed[d] /\ dsm_present[d] /\ cap_pos[d] # 0
        /\ create_log[d].sup = "hard" /\ ~dev_npem[d] /\ ~reg_touched[d]

\* C28: pci_npem_init() reads the active indications from the backend before
\* it registers any LED.  When that read fails the creation fails with
\* -EACCES, no LED was registered and the device has no session; when it
\* succeeds the cache of the new session is the backend's value (the control
\* register gated by its enable bit, or the _DSM state) masked to the
\* catalog and the Supported Set.
C28_EagerCacheInit ==
    \A d \in Devices :
        probed[d] =>
            /\ create_log[d].get = "failed" =>
                  /\ ~dev_npem[d] /\ create_log[d].ret = -EACCES
                  /\ create_log[d].registered = << >>
            /\ create_log[d].registered # << >> => create_log[d].get = "ok"
            /\ Live(d) /\ create_log[d].initial =>
                  active_indications[d] =
                      (IF ops[d] = "npem_ops"
                          /\ PCI_NPEM_CTRL_ENABLE \notin create_log[d].raw
                       THEN {} ELSE create_log[d].raw)
                      \cap IndBits(ops_inds(ops[d])) \cap supported_indications[d]

C28_Witness ==
    \E d, e \in Devices :
        /\ Live(d) /\ create_log[d].initial
        /\ create_log[d].raw \ supported_indications[d] # {}
        /\ active_indications[d] # {}
        /\ probed[e] /\ create_log[e].get = "failed"

\* C29: the mask brightness_set() hands to the backend is computed from the
\* cache read under the lock and differs from it in the bit of the LED at
\* most: cache | bit when the LED is switched on, cache & ~bit when it is
\* switched off.
C29_MaskFromCache ==
    \A t \in Threads :
        pc[t] \in {"npem_write", "dsm_set"} =>
            /\ frame[t].pre = active_indications[frame[t].dev]
            /\ frame[t].val = IF frame[t].on
                              THEN frame[t].pre \cup {frame[t].bit}
                              ELSE frame[t].pre \ {frame[t].bit}

C29_Witness ==
    \E t \in Threads :
        /\ pc[t] = "dsm_set" /\ ~frame[t].on
        /\ frame[t].bit \in frame[t].pre
        /\ frame[t].val # {} /\ frame[t].val = frame[t].pre \ {frame[t].bit}

(***************************************************************************)
(* Properties of drivers/pci/pcie_em.c.                                    *)
(***************************************************************************)
\* C30: in pcie_em.c, where get reads the active patterns from the backend,
\* a get whose backend read failed hands the caller an error: its result is
\* neither false (0, the pattern is off) nor true (1).
C30_GetFailureIsError ==
    em_pc = "ret" /\ em_frame.op = "get" /\ em_frame.failed
    => em_frame.ret \notin {0, 1}

\* C31: in the revisions whose register backend waits on the command issued
\* before, the control register is written by set and read by get only after
\* a status read of this call showed the command completed bit or after the
\* wait ran to its 1 second deadline: never while the earlier command is
\* still incomplete and the deadline has not passed.
C31_WaitOnlyIfIncomplete ==
    em_pc \in {"g_ctrl", "s_write"} => em_frame.seen_cc \/ em_frame.deadline

\* C7: for every kind k that is not in the session's Supported Set,
\* set(k, true) returns Unsupported before any backend I/O is issued.
C7_UnsupportedRejected ==
    em_pc # "idle" /\ em_frame.op = "set" /\ em_frame.state
    /\ ~pcie_em_is_pattern_supported(em_type, em_supported_patterns, em_frame.ptrn)
    => /\ em_frame.io = << >>
       /\ em_pc = "ret" => em_frame.ret = ENCLOSURE_STATUS_UNSUPPORTED

=============================================================================
